---- MODULE Spec2Model ----
(***************************************************************************)
(* A model of diffty's review ledger: the JSON ledger store                *)
(* (internal/storage), the review-state and diff-view handlers and the     *)
(* file-list aggregation (internal/server).                                *)
(*                                                                         *)
(* Strings the code takes apart (repository identifiers, file paths, diff  *)
(* lines) are sequences of one-character strings.  Strings the code only   *)
(* compares for equality or emptiness (branch names, commit hashes,        *)
(* decision values, range tokens) are TLA+ strings.                        *)
(***************************************************************************)
EXTENDS Integers, Sequences, FiniteSets, TLC

(***************************************************************************)
(* Bounds of the model.                                                    *)
(***************************************************************************)
\* longest diff text, in lines
MaxLines == 3
\* most FileReview entries in a ledger drawn as an input
MaxReviews == 2
\* most decisions recorded in one behaviour of the server
MaxRecords == 2
\* most calls made in one behaviour of the storage API
MaxCalls == 3
\* the requests to /api/review-state served before the concurrent ones
MaxEarlier == 1
\* the requests to /api/review-state served concurrently
MaxInflight == 2
\* the calls of AddRepository that are made
MaxAdds == 3
\* the decisions one reviewer records in a review loop
MaxDecisions == 4

(***************************************************************************)
(* Strings as byte sequences.                                              *)
(***************************************************************************)
\* the characters that occur in the model, in byte order
Alphabet == <<"\n", " ", "-", "/", ":", "_", "a", "b", "c", "d", "f", "g", "i", "t", "x">>

Ord(ch) == CHOOSE i \in 1..Len(Alphabet) : Alphabet[i] = ch

\* Go's < on strings: lexicographic on bytes
RECURSIVE StrLess(_, _)
StrLess(s, t) ==
    IF t = <<>> THEN FALSE
    ELSE IF s = <<>> THEN TRUE
    ELSE IF Head(s) # Head(t) THEN Ord(Head(s)) < Ord(Head(t))
    ELSE StrLess(Tail(s), Tail(t))

\* strings.HasPrefix
HasPrefix(s, prefix) ==
    /\ Len(s) >= Len(prefix)
    /\ SubSeq(s, 1, Len(prefix)) = prefix

\* strings.ReplaceAll for a one-character old and new
ReplaceAll(s, old, new) == [i \in 1..Len(s) |-> IF s[i] = old THEN new ELSE s[i]]

\* strings.Split on a one-character separator: the parts between the
\* separators from position i on, the current part starting at position start
RECURSIVE SplitFrom(_, _, _, _)
SplitFrom(s, sep, start, i) ==
    IF i > Len(s) THEN <<SubSeq(s, start, Len(s))>>
    ELSE IF s[i] = sep
    THEN <<SubSeq(s, start, i - 1)>> \o SplitFrom(s, sep, i + 1, i + 1)
    ELSE SplitFrom(s, sep, start, i + 1)

Split(s, sep) == SplitFrom(s, sep, 1, 1)

(***************************************************************************)
(* internal/models                                                         *)
(***************************************************************************)
StateApproved == "approved"
StateRejected == "rejected"
StateSkipped == "skipped"

Decisions == {StateApproved, StateRejected, StateSkipped}

\* models.FileReview; a nil Lines map reads as the empty map
FileReview(repo, path, lines) == [Repo |-> repo, Path |-> path, Lines |-> lines]

\* models.ReviewState
ReviewState(reviewedFiles, sourceBranch, targetBranch, sourceCommit, targetCommit) ==
    [ReviewedFiles |-> reviewedFiles,
     SourceBranch |-> sourceBranch,
     TargetBranch |-> targetBranch,
     SourceCommit |-> sourceCommit,
     TargetCommit |-> targetCommit]

(***************************************************************************)
(* internal/server: extractFilesFromDiff                                   *)
(***************************************************************************)
\* "diff --git "
DiffGitPrefix == <<"d", "i", "f", "f", " ", "-", "-", "g", "i", "t", " ">>

\* "b/"
BPrefix == <<"b", "/">>

\* reviewStatus with approval put before rejection
reviewStatusApprovedFirst(review) ==
    LET approved == \E k \in DOMAIN review.Lines : review.Lines[k] = StateApproved
        rejected == \E k \in DOMAIN review.Lines : review.Lines[k] = StateRejected
        skipped == \E k \in DOMAIN review.Lines : review.Lines[k] = StateSkipped
    IN IF approved THEN StateApproved
       ELSE IF rejected THEN StateRejected
       ELSE IF skipped THEN StateSkipped
       ELSE "unreviewed"

\* reviewStatus that takes a value of the range map as the status when the
\* map holds no decision
reviewStatusAnyValue(review) ==
    LET approved == \E k \in DOMAIN review.Lines : review.Lines[k] = StateApproved
        rejected == \E k \in DOMAIN review.Lines : review.Lines[k] = StateRejected
        skipped == \E k \in DOMAIN review.Lines : review.Lines[k] = StateSkipped
    IN IF rejected THEN StateRejected
       ELSE IF approved THEN StateApproved
       ELSE IF skipped THEN StateSkipped
       ELSE IF DOMAIN review.Lines # {}
       THEN review.Lines[CHOOSE k \in DOMAIN review.Lines : TRUE]
       ELSE "unreviewed"

\* the status of one FileReview: rejection, then approval, then skipped
reviewStatus(review) ==
    LET approved == \E k \in DOMAIN review.Lines : review.Lines[k] = StateApproved
        rejected == \E k \in DOMAIN review.Lines : review.Lines[k] = StateRejected
        skipped == \E k \in DOMAIN review.Lines : review.Lines[k] = StateSkipped
    IN IF rejected THEN StateRejected
       ELSE IF approved THEN StateApproved
       ELSE IF skipped THEN StateSkipped
       ELSE "unreviewed"

\* fileStatusMap without the check of review.Repo
RECURSIVE fileStatusMapAnyRepo(_, _)
fileStatusMapAnyRepo(reviewedFiles, repoPath) ==
    IF reviewedFiles = <<>> THEN <<>>
    ELSE LET n == Len(reviewedFiles)
             review == reviewedFiles[n]
             rest == fileStatusMapAnyRepo(SubSeq(reviewedFiles, 1, n - 1), repoPath)
         IN (review.Path :> reviewStatus(review)) @@ rest

\* the loop over reviewState.ReviewedFiles: a later entry for a path overwrites
RECURSIVE fileStatusMap(_, _)
fileStatusMap(reviewedFiles, repoPath) ==
    IF reviewedFiles = <<>> THEN <<>>
    ELSE LET n == Len(reviewedFiles)
             review == reviewedFiles[n]
             rest == fileStatusMap(SubSeq(reviewedFiles, 1, n - 1), repoPath)
         IN IF review.Repo # repoPath THEN rest
            ELSE (review.Path :> reviewStatus(review)) @@ rest

\* lineFiles without the check of the "b/" prefix
lineFilesAnyPrefix(line, statusMap) ==
    IF ~HasPrefix(line, DiffGitPrefix) THEN <<>>
    ELSE LET parts == Split(line, " ")
         IN IF Len(parts) < 4 THEN <<>>
            ELSE LET bPath == parts[4]
                     filePath == SubSeq(bPath, 3, Len(bPath))
                     status == IF filePath \in DOMAIN statusMap
                               THEN statusMap[filePath]
                               ELSE "unreviewed"
                 IN <<[Path |-> filePath, Status |-> status]>>

\* the entries one line of the diff adds to files: none or one
lineFiles(line, statusMap) ==
    IF ~HasPrefix(line, DiffGitPrefix) THEN <<>>
    ELSE LET parts == Split(line, " ")
         IN IF Len(parts) < 4 THEN <<>>
            ELSE LET bPath == parts[4]
                 IN IF ~HasPrefix(bPath, BPrefix) THEN <<>>
                    ELSE LET filePath == SubSeq(bPath, 3, Len(bPath))
                             status == IF filePath \in DOMAIN statusMap
                                       THEN statusMap[filePath]
                                       ELSE "unreviewed"
                         IN <<[Path |-> filePath, Status |-> status]>>

\* parseFiles that stops at the first header that yields no entry
RECURSIVE parseFilesUntilMalformed(_, _)
parseFilesUntilMalformed(lines, statusMap) ==
    IF lines = <<>> THEN <<>>
    ELSE IF HasPrefix(Head(lines), DiffGitPrefix) /\ lineFiles(Head(lines), statusMap) = <<>>
    THEN <<>>
    ELSE lineFiles(Head(lines), statusMap)
             \o parseFilesUntilMalformed(Tail(lines), statusMap)

\* the loop over the lines of the diff
RECURSIVE parseFiles(_, _)
parseFiles(lines, statusMap) ==
    IF lines = <<>> THEN <<>>
    ELSE lineFiles(Head(lines), statusMap) \o parseFiles(Tail(lines), statusMap)

\* the statusPriority map; a status that is no key reads as 0
statusPriority(status) ==
    CASE status = "unreviewed" -> 0
      [] status = StateSkipped -> 1
      [] status = StateRejected -> 2
      [] status = StateApproved -> 3
      [] OTHER -> 0

\* filesLess that compares the paths only
filesLessByPath(x, y) == StrLess(x.Path, y.Path)

\* the less function handed to sort.Slice
filesLess(x, y) ==
    IF statusPriority(x.Status) # statusPriority(y.Status)
    THEN statusPriority(x.Status) < statusPriority(y.Status)
    ELSE StrLess(x.Path, y.Path)

RECURSIVE insertSorted(_, _)
insertSorted(x, sorted) ==
    IF sorted = <<>> THEN <<x>>
    ELSE IF filesLess(x, Head(sorted)) THEN <<x>> \o sorted
    ELSE <<Head(sorted)>> \o insertSorted(x, Tail(sorted))

\* sort.Slice(files, less): entries that less does not order are equal here
RECURSIVE sortFiles(_)
sortFiles(fs) ==
    IF fs = <<>> THEN <<>>
    ELSE insertSorted(fs[Len(fs)], sortFiles(SubSeq(fs, 1, Len(fs) - 1)))

extractFilesFromDiff(diffText, reviewState, repoPath) ==
    LET lines == Split(diffText, "\n")
        statusMap == fileStatusMap(reviewState.ReviewedFiles, repoPath)
    IN sortFiles(parseFiles(lines, statusMap))

(***************************************************************************)
(* internal/storage: JSONStorage.  The file system below baseStoragePath   *)
(* is the pair fs = [files, dirs]: files maps the path of every file that  *)
(* exists to its content, dirs is the set of directories that exist.  A    *)
(* path is the sequence of its segments below baseStoragePath.             *)
(***************************************************************************)
ReviewStateFile == "review-state.json"

\* reviewDir without the segment of the source commit
reviewDirNoSourceCommit(repoPath, sourceCommit, targetCommit) ==
    LET safeRepoPath == ReplaceAll(ReplaceAll(repoPath, "/", "_"), ":", "_")
    IN <<safeRepoPath, targetCommit>>

\* reviewDir of one directory per repository
reviewDirRepoOnly(repoPath, sourceCommit, targetCommit) ==
    LET safeRepoPath == ReplaceAll(ReplaceAll(repoPath, "/", "_"), ":", "_")
    IN <<safeRepoPath>>

\* reviewDir with the segments of the two commits exchanged
reviewDirTargetFirst(repoPath, sourceCommit, targetCommit) ==
    LET safeRepoPath == ReplaceAll(ReplaceAll(repoPath, "/", "_"), ":", "_")
    IN <<safeRepoPath, targetCommit, sourceCommit>>

\* the directory getReviewStatePath derives from its arguments
reviewDir(repoPath, sourceCommit, targetCommit) ==
    LET safeRepoPath == ReplaceAll(ReplaceAll(repoPath, "/", "_"), ":", "_")
    IN <<safeRepoPath, sourceCommit, targetCommit>>

\* os.MkdirAll: the directory and every missing parent
MkdirAll(dirs, dir) == dirs \cup {SubSeq(dir, 1, k) : k \in 1..Len(dir)}

\* getReviewStatePath: [path, dirs], the path returned and the directories after
getReviewStatePath(fs, repoPath, sourceCommit, targetCommit) ==
    LET dir == reviewDir(repoPath, sourceCommit, targetCommit)
    IN [path |-> Append(dir, ReviewStateFile), dirs |-> MkdirAll(fs.dirs, dir)]

\* json.MarshalIndent of a models.ReviewState: the document's keys are the json tags
Marshal(state) ==
    [reviewed_files |->
        [i \in 1..Len(state.ReviewedFiles) |->
            [repo |-> state.ReviewedFiles[i].Repo,
             path |-> state.ReviewedFiles[i].Path,
             lines |-> state.ReviewedFiles[i].Lines]],
     source_branch |-> state.SourceBranch,
     target_branch |-> state.TargetBranch,
     source_commit |-> state.SourceCommit,
     target_commit |-> state.TargetCommit]

\* Unmarshal that reads every lines object as empty
UnmarshalNoLines(data) ==
    ReviewState(
        [i \in 1..Len(data.reviewed_files) |->
            FileReview(data.reviewed_files[i].repo, data.reviewed_files[i].path, <<>>)],
        data.source_branch, data.target_branch,
        data.source_commit, data.target_commit)

\* json.Unmarshal into a models.ReviewState
Unmarshal(data) ==
    ReviewState(
        [i \in 1..Len(data.reviewed_files) |->
            FileReview(data.reviewed_files[i].repo,
                       data.reviewed_files[i].path,
                       data.reviewed_files[i].lines)],
        data.source_branch, data.target_branch,
        data.source_commit, data.target_commit)

\* the content of a file that os.WriteFile has opened, which truncates it, and
\* has not written yet: no bytes, which json.Unmarshal does not decode
Truncated == [truncated |-> TRUE]

\* SaveReviewState that requires the source commit only
SaveReviewStateSourceOnly(fs, state, repoPath) ==
    IF state.SourceCommit = ""
    THEN [err |-> "source and target commit hashes are required",
          fs |-> fs, ops |-> <<>>]
    ELSE LET p == getReviewStatePath(fs, repoPath, state.SourceCommit, state.TargetCommit)
             data == Marshal(state)
         IN [err |-> "",
             fs |-> [files |-> (p.path :> data) @@ fs.files, dirs |-> p.dirs],
             ops |-> <<"MkdirAll", "WriteFile">>]

\* SaveReviewState: [err, fs, ops]; ops lists the file-system calls made
SaveReviewState(fs, state, repoPath) ==
    IF state.SourceCommit = "" \/ state.TargetCommit = ""
    THEN [err |-> "source and target commit hashes are required",
          fs |-> fs, ops |-> <<>>]
    ELSE LET p == getReviewStatePath(fs, repoPath, state.SourceCommit, state.TargetCommit)
             data == Marshal(state)
         IN [err |-> "",
             fs |-> [files |-> (p.path :> data) @@ fs.files, dirs |-> p.dirs],
             ops |-> <<"MkdirAll", "WriteFile">>]

\* emptyReviewState that leaves the commits unset
emptyReviewStateNoCommits(sourceBranch, targetBranch, sourceCommit, targetCommit) ==
    ReviewState(<<>>, sourceBranch, targetBranch, "", "")

\* the ReviewState returned when nothing is persisted
emptyReviewState(sourceBranch, targetBranch, sourceCommit, targetCommit) ==
    ReviewState(<<>>, sourceBranch, targetBranch, sourceCommit, targetCommit)

\* LoadReviewState that derives the path before it looks at the commits
LoadReviewStatePathFirst(fs, repoPath, sourceBranch, targetBranch, sourceCommit, targetCommit) ==
    LET p == getReviewStatePath(fs, repoPath, sourceCommit, targetCommit)
        after == [files |-> fs.files, dirs |-> p.dirs]
    IN IF sourceCommit = "" \/ targetCommit = "" \/ p.path \notin DOMAIN fs.files
       THEN [state |-> emptyReviewState(sourceBranch, targetBranch,
                                        sourceCommit, targetCommit),
             err |-> "", fs |-> after, ops |-> <<"MkdirAll", "Stat">>]
       ELSE [state |-> Unmarshal(fs.files[p.path]),
             err |-> "", fs |-> after,
             ops |-> <<"MkdirAll", "Stat", "ReadFile">>]

\* LoadReviewState that returns a document only to the branch that saved it
LoadReviewStateByBranch(fs, repoPath, sourceBranch, targetBranch, sourceCommit, targetCommit) ==
    LET p == getReviewStatePath(fs, repoPath, sourceCommit, targetCommit)
        after == [files |-> fs.files, dirs |-> p.dirs]
    IN IF sourceCommit = "" \/ targetCommit = ""
       THEN [state |-> emptyReviewState(sourceBranch, targetBranch,
                                        sourceCommit, targetCommit),
             err |-> "", fs |-> fs, ops |-> <<>>]
       ELSE IF \/ p.path \notin DOMAIN fs.files
               \/ fs.files[p.path].source_branch # sourceBranch
       THEN [state |-> emptyReviewState(sourceBranch, targetBranch,
                                        sourceCommit, targetCommit),
             err |-> "", fs |-> after, ops |-> <<"MkdirAll", "Stat">>]
       ELSE [state |-> Unmarshal(fs.files[p.path]),
             err |-> "", fs |-> after,
             ops |-> <<"MkdirAll", "Stat", "ReadFile">>]

\* LoadReviewState: [state, err, fs, ops]
LoadReviewState(fs, repoPath, sourceBranch, targetBranch, sourceCommit, targetCommit) ==
    IF sourceCommit = "" \/ targetCommit = ""
    THEN [state |-> emptyReviewState(sourceBranch, targetBranch, sourceCommit, targetCommit),
          err |-> "", fs |-> fs, ops |-> <<>>]
    ELSE LET p == getReviewStatePath(fs, repoPath, sourceCommit, targetCommit)
             after == [files |-> fs.files, dirs |-> p.dirs]
         IN IF p.path \notin DOMAIN fs.files
            THEN [state |-> emptyReviewState(sourceBranch, targetBranch,
                                             sourceCommit, targetCommit),
                  err |-> "", fs |-> after, ops |-> <<"MkdirAll", "Stat">>]
            ELSE IF fs.files[p.path] = Truncated
            THEN [state |-> emptyReviewState("", "", "", ""),
                  err |-> "failed to unmarshal review state", fs |-> after,
                  ops |-> <<"MkdirAll", "Stat", "ReadFile">>]
            ELSE [state |-> Unmarshal(fs.files[p.path]),
                  err |-> "", fs |-> after,
                  ops |-> <<"MkdirAll", "Stat", "ReadFile">>]

RepositoriesFile == "repositories.json"

\* SaveRepositories: the file system after; the document holds the array
SaveRepositories(fs, repos) ==
    [files |-> (<<RepositoriesFile>> :> [repositories |-> repos]) @@ fs.files,
     dirs |-> fs.dirs]

\* LoadRepositories of a document that is absent or can be decoded
LoadRepositories(fs) ==
    IF <<RepositoriesFile>> \notin DOMAIN fs.files THEN <<>>
    ELSE fs.files[<<RepositoriesFile>>].repositories

(***************************************************************************)
(* internal/git: the repositories on disk.  heads maps <<repo, branch>> to *)
(* the commit the branch points at.                                        *)
(***************************************************************************)
RepoAB == <<"/", "a", "/", "b">>
RepoA_B == <<"/", "a", "_", "b">>
RepoC == <<"/", "c">>

\* the directories that hold a .git
GitRepos == {RepoAB, RepoA_B}

Branches == {"feature", "main"}

\* the commits the feature branches have pointed at
Commits == {"c1", "c2"}

\* the commit the main branches point at
BaseCommit == "c0"

PathA == <<"a">>
PathAB == <<"a", "b">>
PathB == <<"b">>

Paths == {PathA, PathAB, PathB}

\* a path that no diff names
PathX == <<"x">>

\* git.IsValidRepo
IsValidRepo(path) == path \in GitRepos

\* Repository.GetBranchCommitHash: [hash, err]
GetBranchCommitHash(heads, repo, branch) ==
    IF <<repo, branch>> \in DOMAIN heads
    THEN [hash |-> heads[<<repo, branch>>], err |-> ""]
    ELSE [hash |-> "", err |-> "failed to get commit hash for branch"]

\* strings.Join(lines, "\n")
RECURSIVE JoinLines(_)
JoinLines(lines) ==
    IF lines = <<>> THEN <<>>
    ELSE IF Len(lines) = 1 THEN lines[1]
    ELSE lines[1] \o <<"\n">> \o JoinLines(Tail(lines))

\* the header git diff prints for a changed file: "diff --git a/<path> b/<path>"
HeaderLine(path) == DiffGitPrefix \o <<"a", "/">> \o path \o <<" ", "b", "/">> \o path

\* Repository.GetDiff: the output of git diff for the commits the two branches
\* point at; equal commits have no differences
GetDiff(heads, repo, sourceBranch, targetBranch) ==
    IF heads[<<repo, sourceBranch>>] = heads[<<repo, targetBranch>>] THEN <<>>
    ELSE JoinLines(<<HeaderLine(PathB), <<"-", "a">>, HeaderLine(PathA),
                     HeaderLine(PathAB)>>)

(***************************************************************************)
(* internal/server: the handlers.  Each returns the response and the file  *)
(* system it leaves.                                                       *)
(***************************************************************************)
\* Server.AddRepository: [ok, fs]
AddRepository(fs, path) ==
    IF ~IsValidRepo(path) THEN [ok |-> FALSE, fs |-> fs]
    ELSE LET repos == LoadRepositories(fs)
         IN IF \E i \in 1..Len(repos) : repos[i] = path
            THEN [ok |-> TRUE, fs |-> fs]
            ELSE [ok |-> TRUE, fs |-> SaveRepositories(fs, Append(repos, path))]

\* Server.GetRepository: whether the path is registered
GetRepository(fs, path) ==
    LET repos == LoadRepositories(fs)
    IN \E i \in 1..Len(repos) : repos[i] = path

\* the registry document while os.WriteFile has opened it and not yet written
repositoriesUnreadable(fs) ==
    /\ <<RepositoriesFile>> \in DOMAIN fs.files
    /\ fs.files[<<RepositoriesFile>>] = Truncated

\* AddRepository that appends without looking for the path among the entries
repositoryCheckedNoLookup(fs, path) ==
    IF ~IsValidRepo(path) \/ repositoriesUnreadable(fs)
    THEN [done |-> TRUE, ok |-> FALSE, loaded |-> <<>>]
    ELSE [done |-> FALSE, ok |-> FALSE, loaded |-> LoadRepositories(fs)]

\* Server.AddRepository up to its decision to save: the validation, the load
\* and the search for the path; done when the call returns without saving
repositoryChecked(fs, path) ==
    IF ~IsValidRepo(path) \/ repositoriesUnreadable(fs)
    THEN [done |-> TRUE, ok |-> FALSE, loaded |-> <<>>]
    ELSE LET repos == LoadRepositories(fs)
         IN IF \E i \in 1..Len(repos) : repos[i] = path
            THEN [done |-> TRUE, ok |-> TRUE, loaded |-> repos]
            ELSE [done |-> FALSE, ok |-> FALSE, loaded |-> repos]

\* SaveRepositories: os.WriteFile has opened and truncated the document
repositoriesOpened(fs) ==
    [files |-> (<<RepositoriesFile>> :> Truncated) @@ fs.files, dirs |-> fs.dirs]

\* renderError
errorPage(handler, code, title) == [handler |-> handler, code |-> code, title |-> title]

\* recordDecision that keeps an entry's "all" decision when it has one
recordDecisionKeepFirst(reviewedFiles, repoPath, filePath, status) ==
    LET matches == {i \in 1..Len(reviewedFiles) :
                        /\ reviewedFiles[i].Path = filePath
                        /\ reviewedFiles[i].Repo = repoPath}
    IN IF matches # {}
       THEN LET first == CHOOSE i \in matches : \A j \in matches : i <= j
            IN [reviewedFiles EXCEPT
                   ![first].Lines = reviewedFiles[first].Lines @@ ("all" :> status)]
       ELSE Append(reviewedFiles, FileReview(repoPath, filePath, ("all" :> status)))

\* recordDecision that keeps the decision it overwrites under "previous"
recordDecisionKeepPrevious(reviewedFiles, repoPath, filePath, status) ==
    LET matches == {i \in 1..Len(reviewedFiles) :
                        /\ reviewedFiles[i].Path = filePath
                        /\ reviewedFiles[i].Repo = repoPath}
    IN IF matches # {}
       THEN LET first == CHOOSE i \in matches : \A j \in matches : i <= j
                lines == reviewedFiles[first].Lines
            IN [reviewedFiles EXCEPT
                   ![first].Lines =
                       IF "all" \in DOMAIN lines
                       THEN ("all" :> status) @@ ("previous" :> lines["all"]) @@ lines
                       ELSE ("all" :> status) @@ lines]
       ELSE Append(reviewedFiles, FileReview(repoPath, filePath, ("all" :> status)))

\* recordDecision that replaces the range map of the entry it finds
recordDecisionReplaceLines(reviewedFiles, repoPath, filePath, status) ==
    LET matches == {i \in 1..Len(reviewedFiles) :
                        /\ reviewedFiles[i].Path = filePath
                        /\ reviewedFiles[i].Repo = repoPath}
    IN IF matches # {}
       THEN LET first == CHOOSE i \in matches : \A j \in matches : i <= j
            IN [reviewedFiles EXCEPT ![first].Lines = ("all" :> status)]
       ELSE Append(reviewedFiles, FileReview(repoPath, filePath, ("all" :> status)))

\* recordDecision that appends an entry for every decision
recordDecisionAppend(reviewedFiles, repoPath, filePath, status) ==
    Append(reviewedFiles, FileReview(repoPath, filePath, ("all" :> status)))

\* the loop of handleReviewState over existingState.ReviewedFiles: the first
\* entry for (filePath, repoPath) gets Lines["all"] = status, or one is appended
recordDecision(reviewedFiles, repoPath, filePath, status) ==
    LET matches == {i \in 1..Len(reviewedFiles) :
                        /\ reviewedFiles[i].Path = filePath
                        /\ reviewedFiles[i].Repo = repoPath}
    IN IF matches # {}
       THEN LET first == CHOOSE i \in matches : \A j \in matches : i <= j
            IN [reviewedFiles EXCEPT
                   ![first].Lines = ("all" :> status) @@ reviewedFiles[first].Lines]
       ELSE Append(reviewedFiles, FileReview(repoPath, filePath, ("all" :> status)))

\* a redirect that names the branches and leaves the commits out
reviewStateRedirectNoCommits(req) ==
    [handler |-> "reviewState", code |-> 303,
     location |->
        [path |-> "/diff", repo |-> req.repo,
         source |-> req.source, target |-> req.target,
         source_commit |-> "", target_commit |-> "",
         file |-> IF req.next # <<>> THEN req.next ELSE req.file]]

\* a redirect that always stays on the file just decided
reviewStateRedirectStay(req) ==
    [handler |-> "reviewState", code |-> 303,
     location |->
        [path |-> "/diff", repo |-> req.repo,
         source |-> req.source, target |-> req.target,
         source_commit |-> req.source_commit,
         target_commit |-> req.target_commit,
         file |-> req.file]]

\* the redirect handleReviewState answers with after it has saved
reviewStateRedirect(req) ==
    [handler |-> "reviewState", code |-> 303,
     location |->
        [path |-> "/diff", repo |-> req.repo,
         source |-> req.source, target |-> req.target,
         source_commit |-> req.source_commit,
         target_commit |-> req.target_commit,
         file |-> IF req.next # <<>> THEN req.next ELSE req.file]]

\* a handler that stores every decision under the source commit "c1", whatever
\* pair the request carries
handleReviewStateFixedPair(fs, req) ==
    LET loaded == LoadReviewState(fs, req.repo, req.source, req.target,
                                  "c1", req.target_commit)
        existingState ==
            [loaded.state EXCEPT !.ReviewedFiles =
                recordDecision(loaded.state.ReviewedFiles, req.repo,
                               req.file, req.status)]
        saved == SaveReviewState(loaded.fs, existingState, req.repo)
    IN [resp |-> reviewStateRedirect(req), fs |-> saved.fs, saved |-> TRUE]

\* Server.handleReviewState: [resp, fs, saved]
handleReviewState(fs, req) ==
    IF req.method # "POST"
    THEN [resp |-> errorPage("reviewState", 405, "Method Not Allowed"),
          fs |-> fs, saved |-> FALSE]
    ELSE IF \/ req.repo = <<>> \/ req.source = "" \/ req.target = ""
            \/ req.source_commit = "" \/ req.target_commit = ""
            \/ req.file = <<>> \/ req.status = ""
    THEN [resp |-> errorPage("reviewState", 400, "Missing Parameters"),
          fs |-> fs, saved |-> FALSE]
    ELSE IF req.status \notin {StateApproved, StateRejected, StateSkipped}
    THEN [resp |-> errorPage("reviewState", 400, "Invalid Status"),
          fs |-> fs, saved |-> FALSE]
    ELSE LET loaded == LoadReviewState(fs, req.repo, req.source, req.target,
                                       req.source_commit, req.target_commit)
         IN IF loaded.err # ""
            THEN [resp |-> errorPage("reviewState", 500, "Review State Error"),
                  fs |-> loaded.fs, saved |-> FALSE]
            ELSE LET existingState ==
                         [loaded.state EXCEPT !.ReviewedFiles =
                             recordDecision(loaded.state.ReviewedFiles, req.repo,
                                            req.file, req.status)]
                     saved == SaveReviewState(loaded.fs, existingState, req.repo)
                 IN IF saved.err # ""
                    THEN [resp |-> errorPage("reviewState", 500, "Review State Error"),
                          fs |-> saved.fs, saved |-> FALSE]
                    ELSE [resp |-> reviewStateRedirect(req),
                          fs |-> saved.fs, saved |-> TRUE]

\* reviewStateLoaded that goes on with a fresh ledger when the load fails
reviewStateLoadedSubstitute(fs, req) ==
    IF \/ req.method # "POST"
       \/ req.repo = <<>> \/ req.source = "" \/ req.target = ""
       \/ req.source_commit = "" \/ req.target_commit = ""
       \/ req.file = <<>> \/ req.status = ""
       \/ req.status \notin {StateApproved, StateRejected, StateSkipped}
    THEN [ok |-> FALSE, resp |-> errorPage("reviewState", 400, "Bad Request"),
          fs |-> fs, existingState |-> emptyReviewState("", "", "", ""),
          loadErr |-> ""]
    ELSE LET loaded == LoadReviewState(fs, req.repo, req.source, req.target,
                                       req.source_commit, req.target_commit)
             state == IF loaded.err # ""
                      THEN emptyReviewState(req.source, req.target,
                                            req.source_commit, req.target_commit)
                      ELSE loaded.state
         IN [ok |-> TRUE, resp |-> [handler |-> "reviewState", code |-> 0],
             fs |-> loaded.fs,
             existingState |->
                 [state EXCEPT !.ReviewedFiles =
                     recordDecision(state.ReviewedFiles, req.repo,
                                    req.file, req.status)],
             loadErr |-> loaded.err]

\* reviewStateLoaded without the validation of the status
reviewStateLoadedAnyStatus(fs, req) ==
    LET loaded == LoadReviewState(fs, req.repo, req.source, req.target,
                                  req.source_commit, req.target_commit)
    IN IF loaded.err # ""
       THEN [ok |-> FALSE,
             resp |-> errorPage("reviewState", 500, "Review State Error"),
             fs |-> loaded.fs,
             existingState |-> emptyReviewState("", "", "", ""),
             loadErr |-> loaded.err]
       ELSE [ok |-> TRUE, resp |-> [handler |-> "reviewState", code |-> 0],
             fs |-> loaded.fs,
             existingState |->
                 [loaded.state EXCEPT !.ReviewedFiles =
                     recordDecision(loaded.state.ReviewedFiles, req.repo,
                                    req.file, req.status)],
             loadErr |-> ""]

\* handleReviewState from its first line to the update of the loaded state:
\* [ok, resp, fs, existingState, loadErr]; ok when the handler goes on to save
reviewStateLoaded(fs, req) ==
    IF req.method # "POST"
    THEN [ok |-> FALSE, resp |-> errorPage("reviewState", 405, "Method Not Allowed"),
          fs |-> fs, existingState |-> emptyReviewState("", "", "", ""),
          loadErr |-> ""]
    ELSE IF \/ req.repo = <<>> \/ req.source = "" \/ req.target = ""
            \/ req.source_commit = "" \/ req.target_commit = ""
            \/ req.file = <<>> \/ req.status = ""
    THEN [ok |-> FALSE, resp |-> errorPage("reviewState", 400, "Missing Parameters"),
          fs |-> fs, existingState |-> emptyReviewState("", "", "", ""),
          loadErr |-> ""]
    ELSE IF req.status \notin {StateApproved, StateRejected, StateSkipped}
    THEN [ok |-> FALSE, resp |-> errorPage("reviewState", 400, "Invalid Status"),
          fs |-> fs, existingState |-> emptyReviewState("", "", "", ""),
          loadErr |-> ""]
    ELSE LET loaded == LoadReviewState(fs, req.repo, req.source, req.target,
                                       req.source_commit, req.target_commit)
         IN IF loaded.err # ""
            THEN [ok |-> FALSE,
                  resp |-> errorPage("reviewState", 500, "Review State Error"),
                  fs |-> loaded.fs,
                  existingState |-> emptyReviewState("", "", "", ""),
                  loadErr |-> loaded.err]
            ELSE [ok |-> TRUE, resp |-> [handler |-> "reviewState", code |-> 0],
                  fs |-> loaded.fs,
                  existingState |->
                      [loaded.state EXCEPT !.ReviewedFiles =
                          recordDecision(loaded.state.ReviewedFiles, req.repo,
                                         req.file, req.status)],
                  loadErr |-> ""]

\* SaveReviewState as handleReviewState calls it, up to the point where
\* os.WriteFile has opened the file: the directory exists and the file is empty
reviewStateOpened(fs, state, repoPath) ==
    LET p == getReviewStatePath(fs, repoPath, state.SourceCommit, state.TargetCommit)
    IN [files |-> (p.path :> Truncated) @@ fs.files, dirs |-> p.dirs]

\* reviewStateWritten that keeps the entries another request has written to
\* the document since this one loaded it
reviewStateWrittenMerged(fs, state, repoPath) ==
    LET path == Append(reviewDir(repoPath, state.SourceCommit, state.TargetCommit),
                       ReviewStateFile)
        mine == Marshal(state)
        theirs == IF path \in DOMAIN fs.files /\ fs.files[path] # Truncated
                  THEN fs.files[path].reviewed_files
                  ELSE <<>>
        kept == SelectSeq(theirs,
                    LAMBDA e : \A k \in 1..Len(mine.reviewed_files) :
                        \/ mine.reviewed_files[k].repo # e.repo
                        \/ mine.reviewed_files[k].path # e.path)
    IN [files |-> (path :> [mine EXCEPT !.reviewed_files = kept \o @]) @@ fs.files,
        dirs |-> fs.dirs]

\* os.WriteFile has written the marshalled state and SaveReviewState returns
reviewStateWritten(fs, state, repoPath) ==
    LET path == Append(reviewDir(repoPath, state.SourceCommit, state.TargetCommit),
                       ReviewStateFile)
    IN [files |-> (path :> Marshal(state)) @@ fs.files, dirs |-> fs.dirs]

\* a FileStatus taken from the first entry for the path, whatever its repository
fileStatusAnyRepo(reviewedFiles, repoPath, filePath) ==
    LET matches == {i \in 1..Len(reviewedFiles) : reviewedFiles[i].Path = filePath}
    IN IF matches = {} THEN "unreviewed"
       ELSE LET first == CHOOSE i \in matches : \A j \in matches : i <= j
                lines == reviewedFiles[first].Lines
                statuses == {lines[k] : k \in DOMAIN lines}
            IN IF Cardinality(statuses) = 1 THEN CHOOSE st \in statuses : TRUE
               ELSE IF Cardinality(statuses) > 1 THEN "mixed"
               ELSE "unreviewed"

\* a FileStatus that is "mixed" for every entry that holds a decision
fileStatusMixed(reviewedFiles, repoPath, filePath) ==
    LET matches == {i \in 1..Len(reviewedFiles) :
                        /\ reviewedFiles[i].Path = filePath
                        /\ reviewedFiles[i].Repo = repoPath}
    IN IF matches = {} THEN "unreviewed"
       ELSE LET first == CHOOSE i \in matches : \A j \in matches : i <= j
            IN IF DOMAIN reviewedFiles[first].Lines # {} THEN "mixed"
               ELSE "unreviewed"

\* the FileStatus handleDiffView shows for the selected file
fileStatus(reviewedFiles, repoPath, filePath) ==
    LET matches == {i \in 1..Len(reviewedFiles) :
                        /\ reviewedFiles[i].Path = filePath
                        /\ reviewedFiles[i].Repo = repoPath}
    IN IF matches = {} THEN "unreviewed"
       ELSE LET first == CHOOSE i \in matches : \A j \in matches : i <= j
                lines == reviewedFiles[first].Lines
                statuses == {lines[k] : k \in DOMAIN lines}
            IN IF Cardinality(statuses) = 1 THEN CHOOSE st \in statuses : TRUE
               ELSE IF Cardinality(statuses) > 1 THEN "mixed"
               ELSE "unreviewed"

\* a next file that is the entry found, not the entry after it
nextFilePathAtCurrent(files, filePath) ==
    LET found == {i \in 1..Len(files) : files[i].Path = filePath}
    IN IF found = {} THEN <<>>
       ELSE files[CHOOSE i \in found : \A j \in found : i <= j].Path

\* the NextFilePath handleDiffView computes; <<>> when it sets none
nextFilePath(files, filePath) ==
    LET found == {i \in 1..Len(files) : files[i].Path = filePath}
    IN IF found = {} THEN <<>>
       ELSE LET currentIndex == CHOOSE i \in found : \A j \in found : i <= j
            IN IF currentIndex < Len(files) THEN files[currentIndex + 1].Path
               ELSE <<>>

\* Server.handleDiffView: [resp, fs]
handleDiffView(fs, heads, req) ==
    IF req.repo = <<>> \/ req.source = "" \/ req.target = ""
    THEN [resp |-> [handler |-> "diff", code |-> 303, location |-> [path |-> "/"]],
          fs |-> fs]
    ELSE IF ~GetRepository(fs, req.repo)
    THEN [resp |-> errorPage("diff", 404, "Not Found"), fs |-> fs]
    ELSE LET source == GetBranchCommitHash(heads, req.repo, req.source)
             target == GetBranchCommitHash(heads, req.repo, req.target)
         IN IF source.err # "" \/ target.err # ""
            THEN [resp |-> errorPage("diff", 500, "Branch Error"), fs |-> fs]
            ELSE LET loaded == LoadReviewState(fs, req.repo, req.source, req.target,
                                               source.hash, target.hash)
                     reviewState ==
                         IF loaded.err # ""
                         THEN emptyReviewState(req.source, req.target,
                                               source.hash, target.hash)
                         ELSE loaded.state
                     fullDiffText == GetDiff(heads, req.repo, req.source, req.target)
                     files == IF fullDiffText = <<>> THEN <<>>
                              ELSE extractFilesFromDiff(fullDiffText, reviewState,
                                                        req.repo)
                 IN [resp |->
                        [handler |-> "diff", code |-> 200,
                         RepoPath |-> req.repo,
                         SourceBranch |-> req.source, TargetBranch |-> req.target,
                         SourceCommit |-> source.hash, TargetCommit |-> target.hash,
                         NoDiff |-> (fullDiffText = <<>>),
                         Files |-> files,
                         SelectedFile |-> req.file,
                         FileStatus |-> IF req.file = <<>> THEN ""
                                        ELSE fileStatus(reviewState.ReviewedFiles,
                                                        req.repo, req.file),
                         NextFilePath |-> IF req.file = <<>> THEN <<>>
                                          ELSE nextFilePath(files, req.file)],
                     fs |-> loaded.fs]

\* diff.html: the hidden anchors the template renders for the selected file,
\* in document order; under every entry of Files whose Path is SelectedFile
\* a prev-file-link when its index is above 0 and a next-file-link when its
\* index is below len-1
fileLinks(files, selectedFile) ==
    LET Links[i \in 0..Len(files)] ==
            IF i = 0 THEN <<>>
            ELSE Links[i - 1] \o
                 (IF files[i].Path # selectedFile THEN <<>>
                  ELSE (IF i > 1
                        THEN <<[id |-> "prev-file-link", file |-> files[i - 1].Path]>>
                        ELSE <<>>) \o
                       (IF i < Len(files)
                        THEN <<[id |-> "next-file-link", file |-> files[i + 1].Path]>>
                        ELSE <<>>))
    IN IF selectedFile = <<>> THEN <<>> ELSE Links[Len(files)]

\* document.getElementById in diff.html's script: the file of the first
\* anchor with the id; <<>> when the page has none
getElementById(links, id) ==
    LET found == {k \in 1..Len(links) : links[k].id = id}
    IN IF found = {} THEN <<>>
       ELSE links[CHOOSE k \in found : \A j \in found : k <= j].file

\* diff.html: the request the review form of a page sends for a decision; the
\* action carries the page's repository, branches, commits and selected
\* file, the status of the button, and next when the page has a NextFilePath
reviewForm(page, status) ==
    [method |-> "POST", repo |-> page.RepoPath,
     source |-> page.SourceBranch, target |-> page.TargetBranch,
     source_commit |-> page.SourceCommit, target_commit |-> page.TargetCommit,
     file |-> page.SelectedFile, status |-> status, next |-> page.NextFilePath]

\* the request to /diff a client makes when it follows a redirect of
\* handleReviewState; handleDiffView reads repo, source, target and file
followRedirect(location) ==
    [repo |-> location.repo, source |-> location.source,
     target |-> location.target, file |-> location.file]

(***************************************************************************)
(* The state.                                                              *)
(***************************************************************************)
VARIABLES
    fs,            \* the file system below baseStoragePath: [files, dirs]
    heads,         \* <<repo, branch>> -> the commit the branch points at
    resp,          \* the response to the request just served
    call,          \* the last direct call of a function and what it returned
    history,       \* the decisions that were recorded and saved, in order
    ncalls,        \* the number of direct calls made
    inflight       \* the requests to /api/review-state that are being served

vars == <<fs, heads, resp, call, history, ncalls, inflight>>

emptyFs == [files |-> <<>>, dirs |-> {}]

(***************************************************************************)
(* Spec: the server on an empty store, serving one request at a time,      *)
(* while branches of the repositories move.                                *)
(***************************************************************************)
Init ==
    /\ fs = SaveRepositories(emptyFs, <<RepoAB>>)
    /\ heads = [k \in GitRepos \X Branches |->
                    IF k[2] = "feature" THEN "c1" ELSE BaseCommit]
    /\ resp = [handler |-> "none"]
    /\ call = [op |-> "none"]
    /\ history = <<>>
    /\ ncalls = 0
    /\ inflight = <<>>

\* a request to /api/review-state
ReviewRequest(method, repo, sourceCommit, targetCommit, file, status, next) ==
    [method |-> method, repo |-> repo, source |-> "feature", target |-> "main",
     source_commit |-> sourceCommit, target_commit |-> targetCommit,
     file |-> file, status |-> status, next |-> next]

\* the requests to /api/review-state that are made: every decision on the
\* files of RepoAB under both commit pairs, decisions on one file of RepoA_B,
\* whose ledgers share their location with RepoAB's, and malformed requests
ReviewRequests ==
    {ReviewRequest("POST", RepoAB, sc, BaseCommit, file, status, <<>>) :
        sc \in Commits, file \in {PathA, PathB}, status \in Decisions}
    \cup
    {ReviewRequest("POST", RepoAB, "c1", BaseCommit, PathA, status, PathB) :
        status \in Decisions}
    \cup
    {ReviewRequest("POST", RepoA_B, "c1", BaseCommit, PathA, status, <<>>) :
        status \in Decisions}
    \cup
    {ReviewRequest("GET", RepoAB, "c1", BaseCommit, PathA, StateApproved, <<>>),
     ReviewRequest("POST", RepoAB, "", BaseCommit, PathA, StateApproved, <<>>),
     ReviewRequest("POST", RepoAB, "c1", "", PathA, StateApproved, <<>>),
     ReviewRequest("POST", RepoAB, "c1", BaseCommit, <<>>, StateApproved, <<>>),
     ReviewRequest("POST", RepoAB, "c1", BaseCommit, PathA, "mixed", <<>>)}

\* the requests to /diff
DiffRequests ==
    [repo : {RepoAB, RepoA_B},
     source : {"feature"},
     target : {"main"},
     file : {<<>>, PathA, PathB}]
    \cup
    {[repo |-> RepoAB, source |-> "feature", target |-> "main", file |-> PathAB],
     [repo |-> RepoAB, source |-> "feature", target |-> "main", file |-> PathX],
     [repo |-> RepoC, source |-> "feature", target |-> "main", file |-> <<>>],
     [repo |-> RepoAB, source |-> "", target |-> "main", file |-> <<>>],
     [repo |-> RepoAB, source |-> "feature", target |-> "gone", file |-> <<>>]}

\* POST /api/repository/add
AddRepositoryRequest ==
    \E path \in GitRepos \cup {RepoC} :
        \E r \in {AddRepository(fs, path)} :
           /\ fs' = r.fs
           /\ resp' = [handler |-> "addRepository", ok |-> r.ok]
           /\ UNCHANGED <<inflight, heads, call, history, ncalls>>

\* POST /api/review-state
ReviewStateRequest ==
    \E req \in ReviewRequests :
        \E r \in {handleReviewState(fs, req)} :
           /\ r.saved => Len(history) < MaxRecords
           /\ fs' = r.fs
           /\ resp' = r.resp
           /\ history' =
                 IF r.saved
                 THEN Append(history,
                             [repo |-> req.repo, source_commit |-> req.source_commit,
                              target_commit |-> req.target_commit,
                              file |-> req.file, status |-> req.status])
                 ELSE history
           /\ UNCHANGED <<inflight, heads, call, ncalls>>

\* GET /diff
DiffViewRequest ==
    \E req \in DiffRequests :
        \E r \in {handleDiffView(fs, heads, req)} :
           /\ fs' = r.fs
           /\ resp' = r.resp
           /\ UNCHANGED <<inflight, heads, call, history, ncalls>>

\* the branches that are pushed to while the server runs
Moving == {<<RepoAB, "feature">>}

\* a push, rebase or reset outside the server moves a branch
MoveBranch ==
    \E k \in Moving, c \in Commits :
        /\ heads[k] # c
        /\ heads' = [heads EXCEPT ![k] = c]
        /\ resp' = [handler |-> "none"]
        /\ UNCHANGED <<inflight, fs, call, history, ncalls>>

Next ==
    \/ AddRepositoryRequest
    \/ ReviewStateRequest
    \/ DiffViewRequest
    \/ MoveBranch

Spec == Init /\ [][Next]_vars

(***************************************************************************)
(* SpecExtract: extractFilesFromDiff applied to every diff text and ledger *)
(* of the bounded input sets.                                              *)
(***************************************************************************)
\* the lines a diff text is made of: headers, two malformed headers (three
\* fields; a fourth field without "b/") and a line that is no header
DiffLines ==
    {HeaderLine(p) : p \in Paths}
    \cup {DiffGitPrefix \o <<"a", "/", "a">>,
          DiffGitPrefix \o <<"a", "/", "a", " ", "a", "/", "a">>,
          <<"-", "a">>}

\* the sequences of at most n elements of S
RECURSIVE SeqsUpTo(_, _)
SeqsUpTo(S, n) ==
    IF n = 0 THEN {<<>>}
    ELSE LET shorter == SeqsUpTo(S, n - 1)
         IN shorter \cup {Append(q, x) : q \in shorter, x \in S}

\* the diff texts: git diff prints no line of DiffLines twice
DiffTexts ==
    {JoinLines(ls) : ls \in {q \in SeqsUpTo(DiffLines, MaxLines) :
                                \A i, j \in 1..Len(q) : q[i] = q[j] => i = j}}

\* the values a persisted range entry holds: the decisions and one other string
LineValues == Decisions \cup {"bogus"}

\* the range maps of the input ledgers: no entry, one entry for the whole
\* file, or two line entries that hold different decisions
LineMaps ==
    {<<>>}
    \cup {("all" :> v) : v \in LineValues}
    \cup {("1" :> StateApproved) @@ ("2" :> StateRejected),
          ("1" :> StateApproved) @@ ("2" :> StateSkipped),
          ("1" :> StateSkipped) @@ ("2" :> StateRejected)}

\* the (repository, path) pairs the input ledgers review
ReviewKeys == {<<RepoAB, PathA>>, <<RepoAB, PathB>>, <<RepoA_B, PathA>>}

\* the ReviewedFiles of the input ledgers: unique by (repository, path)
InputReviews ==
    {rs \in SeqsUpTo({FileReview(k[1], k[2], m) : k \in ReviewKeys, m \in LineMaps},
                     MaxReviews) :
        \A i, j \in 1..Len(rs) :
            (rs[i].Repo = rs[j].Repo /\ rs[i].Path = rs[j].Path) => i = j}

InitExtract ==
    /\ fs = emptyFs
    /\ heads = <<>>
    /\ resp = [handler |-> "none"]
    /\ history = <<>>
    /\ ncalls = 0
    /\ inflight = <<>>
    /\ call \in {[op |-> "input", diffText |-> d,
                  reviewState |-> ReviewState(rs, "feature", "main", "c1", BaseCommit),
                  repoPath |-> RepoAB] :
                    d \in DiffTexts, rs \in InputReviews}

Extract ==
    /\ call.op = "input"
    /\ call' = [op |-> "extractFilesFromDiff",
                diffText |-> call.diffText,
                reviewState |-> call.reviewState,
                repoPath |-> call.repoPath,
                files |-> extractFilesFromDiff(call.diffText, call.reviewState,
                                               call.repoPath)]
    /\ ncalls' = ncalls + 1
    /\ UNCHANGED <<inflight, fs, heads, resp, history>>

NextExtract == Extract

SpecExtract == InitExtract /\ [][NextExtract]_vars

(***************************************************************************)
(* SpecStorage: SaveReviewState and LoadReviewState called directly, as    *)
(* the storage tests call them, on a store that starts empty.              *)
(***************************************************************************)
\* the FileReview of the storage test
TestReview(repo) ==
    FileReview(repo, PathA,
               ("1" :> StateApproved) @@ ("2" :> StateRejected) @@ ("3-5" :> StateSkipped))

\* the ledgers that are saved: SaveReviewState takes any string as the value
\* of a range entry
SavedStates ==
    {ReviewState(rs, "feature", "main", sc, tc) :
        rs \in {<<>>, <<TestReview(RepoAB)>>,
                <<FileReview(RepoAB, PathB, ("all" :> StateApproved)),
                  TestReview(RepoAB)>>,
                <<FileReview(RepoAB, PathB, ("all" :> "bogus"))>>},
        sc \in Commits \cup {""},
        tc \in {BaseCommit, ""}}

InitStorage ==
    /\ fs = emptyFs
    /\ heads = <<>>
    /\ resp = [handler |-> "none"]
    /\ call = [op |-> "none"]
    /\ history = <<>>
    /\ ncalls = 0
    /\ inflight = <<>>

CallSaveReviewState ==
    \E state \in SavedStates, repoPath \in {RepoAB, RepoC} :
        \E r \in {SaveReviewState(fs, state, repoPath)} :
            /\ ncalls < MaxCalls
            /\ fs' = r.fs
            /\ call' = [op |-> "SaveReviewState", state |-> state,
                        repoPath |-> repoPath, err |-> r.err, ops |-> r.ops]
            /\ ncalls' = ncalls + 1
            /\ UNCHANGED <<inflight, heads, resp, history>>

CallLoadReviewState ==
    \E repoPath \in {RepoAB, RepoC}, sourceBranch \in {"feature", "topic"},
       sourceCommit \in Commits \cup {""}, targetCommit \in {BaseCommit, ""} :
        \E r \in {LoadReviewState(fs, repoPath, sourceBranch, "main",
                                  sourceCommit, targetCommit)} :
            /\ ncalls < MaxCalls
            /\ fs' = r.fs
            /\ call' = [op |-> "LoadReviewState", repoPath |-> repoPath,
                        sourceBranch |-> sourceBranch, targetBranch |-> "main",
                        sourceCommit |-> sourceCommit, targetCommit |-> targetCommit,
                        state |-> r.state, err |-> r.err, ops |-> r.ops]
            /\ ncalls' = ncalls + 1
            /\ UNCHANGED <<inflight, heads, resp, history>>

NextStorage ==
    \/ CallSaveReviewState
    \/ CallLoadReviewState

SpecStorage == InitStorage /\ [][NextStorage]_vars

(***************************************************************************)
(* SpecConcurrent: net/http serves every request in a goroutine of its     *)
(* own and the handlers take no lock, so the steps of the requests to      *)
(* /api/review-state interleave: the load, the opening of the file by      *)
(* os.WriteFile, and its write.  Requests served to the end before the     *)
(* concurrent ones arrive come first; /diff is served at any moment.       *)
(***************************************************************************)
\* the requests that are served concurrently: two files of one ledger, two
\* decisions on one file, the same file under another commit pair and in a
\* repository whose ledgers share their location, an invalid status, and a
\* request without target_commit
ConcurrentRequests ==
    {ReviewRequest("POST", RepoAB, "c1", BaseCommit, PathA, StateApproved, <<>>),
     ReviewRequest("POST", RepoAB, "c1", BaseCommit, PathA, StateSkipped, <<>>),
     ReviewRequest("POST", RepoAB, "c1", BaseCommit, PathB, StateRejected, <<>>),
     ReviewRequest("POST", RepoAB, "c2", BaseCommit, PathA, StateApproved, <<>>),
     ReviewRequest("POST", RepoA_B, "c1", BaseCommit, PathA, StateRejected, <<>>),
     ReviewRequest("POST", RepoAB, "c1", BaseCommit, PathA, "mixed", <<>>),
     ReviewRequest("POST", RepoAB, "c1", "", PathA, StateApproved, <<>>)}

\* the requests to /diff served meanwhile
ConcurrentDiffRequests ==
    {[repo |-> RepoAB, source |-> "feature", target |-> "main", file |-> f] :
        f \in {<<>>, PathA}}

\* the decision a request records, as history keeps it; by is the position of
\* the request in inflight, 0 for a request served earlier
Recorded(req, by) ==
    [repo |-> req.repo, source_commit |-> req.source_commit,
     target_commit |-> req.target_commit, file |-> req.file, status |-> req.status,
     by |-> by]

InitConcurrent ==
    /\ fs = SaveRepositories(emptyFs, <<RepoAB>>)
    /\ heads = [k \in GitRepos \X Branches |->
                    IF k[2] = "feature" THEN "c1" ELSE BaseCommit]
    /\ resp = [handler |-> "none"]
    /\ call = [op |-> "none"]
    /\ history = <<>>
    /\ ncalls = 0
    /\ inflight = <<>>

\* a request to /api/review-state served to the end before any other arrives
ServeEarlier ==
    \E req \in ConcurrentRequests :
        \E r \in {handleReviewState(fs, req)} :
           /\ inflight = <<>>
           /\ ncalls < MaxEarlier
           /\ fs' = r.fs
           /\ history' = IF r.saved THEN Append(history, Recorded(req, 0)) ELSE history
           /\ ncalls' = ncalls + 1
           /\ UNCHANGED <<heads, resp, call, inflight>>

\* a request arrives and its goroutine runs up to the update of the state it
\* loaded, or to the error page
AcceptAndLoad ==
    \E req \in ConcurrentRequests :
        \E r \in {reviewStateLoaded(fs, req)} :
           /\ Len(inflight) < MaxInflight
           /\ fs' = r.fs
           /\ inflight' = Append(inflight,
                                 [pc |-> IF r.ok THEN "loaded" ELSE "done",
                                  req |-> req,
                                  existingState |-> r.existingState,
                                  resp |-> r.resp,
                                  loadErr |-> r.loadErr,
                                  before |-> fs])
           /\ UNCHANGED <<heads, resp, call, history, ncalls>>

\* the goroutine of a request enters SaveReviewState and os.WriteFile opens
\* the file
OpenFile ==
    \E i \in 1..Len(inflight) :
        /\ inflight[i].pc = "loaded"
        /\ fs' = reviewStateOpened(fs, inflight[i].existingState, inflight[i].req.repo)
        /\ inflight' = [inflight EXCEPT ![i].pc = "writing"]
        /\ UNCHANGED <<heads, resp, call, history, ncalls>>

\* os.WriteFile writes the document and the handler redirects
WriteFile ==
    \E i \in 1..Len(inflight) :
        /\ inflight[i].pc = "writing"
        /\ fs' = reviewStateWritten(fs, inflight[i].existingState, inflight[i].req.repo)
        /\ inflight' = [inflight EXCEPT ![i].pc = "done",
                                        ![i].resp = reviewStateRedirect(inflight[i].req)]
        /\ history' = Append(history, Recorded(inflight[i].req, i))
        /\ UNCHANGED <<heads, resp, call, ncalls>>

\* GET /diff, served at once; call keeps the request and the error, if any,
\* of the load the handler makes
ServeDiffView ==
    \E req \in ConcurrentDiffRequests :
        \E r \in {handleDiffView(fs, heads, req)} :
           /\ fs' = r.fs
           /\ resp' = r.resp
           /\ call' = [op |-> "handleDiffView", req |-> req,
                       loadErr |->
                           LoadReviewState(fs, req.repo, req.source, req.target,
                               GetBranchCommitHash(heads, req.repo, req.source).hash,
                               GetBranchCommitHash(heads, req.repo, req.target).hash).err]
           /\ UNCHANGED <<heads, history, ncalls, inflight>>

NextConcurrent ==
    \/ ServeEarlier
    \/ AcceptAndLoad
    \/ OpenFile
    \/ WriteFile
    \/ ServeDiffView

SpecConcurrent == InitConcurrent /\ [][NextConcurrent]_vars

(***************************************************************************)
(* SpecRecord: requests to /api/review-state served one at a time on a     *)
(* store that holds any ledger of a bounded set for the key of the         *)
(* requests, or none.                                                      *)
(***************************************************************************)
\* the range maps of the ledgers the requests find
RecordLineMaps ==
    {<<>>, ("all" :> StateApproved), ("all" :> StateRejected),
     ("1" :> StateApproved) @@ ("2" :> StateRejected)}

\* the ReviewedFiles of the ledgers the requests find; a document that was not
\* written by handleReviewState may hold two entries for one file
RecordLedgers ==
    SeqsUpTo({FileReview(k[1], k[2], m) : k \in ReviewKeys, m \in RecordLineMaps},
             MaxReviews)

\* the requests: every decision on two files of one ledger, without and with
\* a next file, and one without status
RecordRequests ==
    {ReviewRequest("POST", RepoAB, "c1", BaseCommit, file, status, <<>>) :
        file \in {PathA, PathB}, status \in Decisions}
    \cup {ReviewRequest("POST", RepoAB, "c1", BaseCommit, PathA, status, PathB) :
            status \in Decisions}
    \cup {ReviewRequest("POST", RepoAB, "c1", BaseCommit, PathA, "", <<>>)}

InitRecord ==
    /\ heads = <<>>
    /\ resp = [handler |-> "none"]
    /\ call = [op |-> "none"]
    /\ history = <<>>
    /\ ncalls = 0
    /\ inflight = <<>>
    /\ fs \in {emptyFs}
              \cup {SaveReviewState(emptyFs,
                                    ReviewState(rs, "topic", "main", "c1", BaseCommit),
                                    RepoAB).fs : rs \in RecordLedgers}

\* POST /api/review-state; call keeps the request and the ledger it loaded
RecordRequest ==
    \E req \in RecordRequests :
        \E r \in {handleReviewState(fs, req)} :
           /\ Len(history) < MaxRecords
           /\ fs' = r.fs
           /\ resp' = r.resp
           /\ call' = [op |-> "handleReviewState", req |-> req, saved |-> r.saved,
                       loaded |-> LoadReviewState(fs, req.repo, req.source, req.target,
                                                  req.source_commit,
                                                  req.target_commit).state]
           /\ history' = IF r.saved THEN Append(history, Recorded(req, 0)) ELSE history
           /\ UNCHANGED <<heads, ncalls, inflight>>

NextRecord == RecordRequest

SpecRecord == InitRecord /\ [][NextRecord]_vars

(***************************************************************************)
(* SpecRegistry: calls of AddRepository served concurrently.  A call loads *)
(* the registry and looks for its path, and when the path is new opens the *)
(* document and writes it; the steps of different calls interleave.        *)
(***************************************************************************)
\* the registries the server starts from: none, one entry, two entries
Registries == {<<>>, <<RepoAB>>, <<RepoA_B, RepoAB>>}

InitRegistry ==
    /\ fs \in {emptyFs} \cup {SaveRepositories(emptyFs, repos) : repos \in Registries \ {<<>>}}
    /\ heads = [k \in GitRepos \X Branches |->
                    IF k[2] = "feature" THEN "c1" ELSE BaseCommit]
    /\ resp = [handler |-> "none"]
    /\ call = [op |-> "none"]
    /\ history = <<>>
    /\ ncalls = 0
    /\ inflight = <<>>

\* a call is made: it validates the path, loads the registry and looks for
\* the path; it returns at once or goes on to save
AddCheck ==
    /\ Len(inflight) < MaxAdds
    /\ \E path \in GitRepos \cup {RepoC} :
          \E r \in {repositoryChecked(fs, path)} :
             inflight' = Append(inflight,
                                [pc |-> IF r.done THEN "done" ELSE "opening",
                                 path |-> path, loaded |-> r.loaded,
                                 ok |-> r.ok, wrote |-> FALSE])
    /\ UNCHANGED <<fs, heads, resp, call, history, ncalls>>

\* SaveRepositories opens the document
AddOpenFile ==
    \E k \in 1..Len(inflight) :
        /\ inflight[k].pc = "opening"
        /\ fs' = repositoriesOpened(fs)
        /\ inflight' = [inflight EXCEPT ![k].pc = "writing"]
        /\ UNCHANGED <<heads, resp, call, history, ncalls>>

\* SaveRepositories writes the loaded entries and the path after them
AddWriteFile ==
    \E k \in 1..Len(inflight) :
        /\ inflight[k].pc = "writing"
        /\ fs' = SaveRepositories(fs, Append(inflight[k].loaded, inflight[k].path))
        /\ inflight' = [inflight EXCEPT ![k].pc = "done", ![k].ok = TRUE,
                                         ![k].wrote = TRUE]
        /\ UNCHANGED <<heads, resp, call, history, ncalls>>

NextRegistry ==
    \/ AddCheck
    \/ AddOpenFile
    \/ AddWriteFile

SpecRegistry == InitRegistry /\ [][NextRegistry]_vars

(***************************************************************************)
(* SpecLoop: one reviewer works through the files of a diff that does not  *)
(* change.  The reviewer opens the list, opens its first file, and then    *)
(* submits a review form of the page shown and follows the redirect, again *)
(* and again; the server answers every request.                            *)
(***************************************************************************)
InitLoop ==
    /\ fs \in {SaveRepositories(emptyFs, <<repo>>) : repo \in GitRepos}
    /\ heads = [k \in GitRepos \X Branches |->
                    IF k[2] = "feature" THEN "c1" ELSE BaseCommit]
    /\ resp = [handler |-> "none"]
    /\ call = [op |-> "none"]
    /\ history = <<>>
    /\ ncalls = 0
    /\ inflight = <<>>

\* GET /diff for the registered repository, no file selected
OpenList ==
    /\ resp.handler = "none"
    /\ \E r \in {handleDiffView(fs, heads,
                                 [repo |-> LoadRepositories(fs)[1], source |-> "feature",
                                  target |-> "main", file |-> <<>>])} :
          fs' = r.fs /\ resp' = r.resp
    /\ UNCHANGED <<heads, call, history, ncalls, inflight>>

\* GET /diff for the first file of the list shown
OpenFirstFile ==
    /\ resp.handler = "diff" /\ resp.code = 200
    /\ resp.SelectedFile = <<>> /\ resp.Files # <<>>
    /\ \E r \in {handleDiffView(fs, heads,
                                 [repo |-> resp.RepoPath, source |-> resp.SourceBranch,
                                  target |-> resp.TargetBranch,
                                  file |-> resp.Files[1].Path])} :
          fs' = r.fs /\ resp' = r.resp
    /\ UNCHANGED <<heads, call, history, ncalls, inflight>>

\* POST /api/review-state from a review form of the page shown
SubmitForm ==
    /\ resp.handler = "diff" /\ resp.code = 200 /\ resp.SelectedFile # <<>>
    /\ Len(history) < MaxDecisions
    /\ \E status \in Decisions :
          \E req \in {reviewForm(resp, status)} :
             \E r \in {handleReviewState(fs, req)} :
                /\ fs' = r.fs
                /\ resp' = r.resp
                /\ history' =
                      IF r.saved
                      THEN Append(history,
                                  [repo |-> req.repo,
                                   source_commit |-> req.source_commit,
                                   target_commit |-> req.target_commit,
                                   file |-> req.file, status |-> req.status])
                      ELSE history
    /\ UNCHANGED <<heads, call, ncalls, inflight>>

\* GET /diff at the location of the redirect
FollowRedirect ==
    /\ resp.handler = "reviewState" /\ resp.code = 303
    /\ \E r \in {handleDiffView(fs, heads, followRedirect(resp.location))} :
          fs' = r.fs /\ resp' = r.resp
    /\ UNCHANGED <<heads, call, history, ncalls, inflight>>

NextLoop ==
    \/ OpenList
    \/ OpenFirstFile
    \/ SubmitForm
    \/ FollowRedirect

SpecLoop == InitLoop /\ [][NextLoop]_vars

(***************************************************************************)
(* SpecStale: the review loop while the source branch is pushed to.  The   *)
(* page the reviewer has open stays as it was rendered when the branch      *)
(* moves; its review forms carry the commits it was rendered for.           *)
(***************************************************************************)
\* a push moves the source branch of the registered repository; the page
\* shown is not rendered again
PushBranch ==
    /\ resp.handler # "none"
    /\ \E c \in Commits :
          /\ heads[<<LoadRepositories(fs)[1], "feature">>] # c
          /\ heads' = [heads EXCEPT ![<<LoadRepositories(fs)[1], "feature">>] = c]
    /\ UNCHANGED <<fs, resp, call, history, ncalls, inflight>>

NextStale ==
    \/ OpenList
    \/ OpenFirstFile
    \/ SubmitForm
    \/ FollowRedirect
    \/ PushBranch

SpecStale == InitLoop /\ [][NextStale]_vars

(***************************************************************************)
(* Properties of the file list, checked under SpecExtract.                 *)
(***************************************************************************)
Extracted == call.op = "extractFilesFromDiff"

\* the range maps of the FileReview entries of the input ledger for a path of
\* the repository the list is made for
ReviewMaps(path) ==
    {call.reviewState.ReviewedFiles[i].Lines :
        i \in {j \in 1..Len(call.reviewState.ReviewedFiles) :
                 /\ call.reviewState.ReviewedFiles[j].Repo = call.repoPath
                 /\ call.reviewState.ReviewedFiles[j].Path = path}}

\* the values a range map holds
ValuesOf(lines) == {lines[k] : k \in DOMAIN lines}

\* C3: a changed file with no FileReview for (repository, path) in the ledger
\* is unreviewed in the list, and a changed file whose FileReview holds
\* approved as its only value is approved
C3_AbsentUnreviewedApprovedOnly ==
    Extracted =>
        \A i \in 1..Len(call.files) :
            LET f == call.files[i]
            IN /\ ReviewMaps(f.Path) = {} => f.Status = "unreviewed"
               /\ (\E m \in ReviewMaps(f.Path) : ValuesOf(m) = {StateApproved})
                      => f.Status = StateApproved

\* a list with a file that has no FileReview of its repository, though another
\* repository's ledger entry names its path, and a file approved as a whole
C3_Witness ==
    /\ Extracted
    /\ \E i, j \in 1..Len(call.files) :
        /\ ReviewMaps(call.files[i].Path) = {}
        /\ \E k \in 1..Len(call.reviewState.ReviewedFiles) :
              call.reviewState.ReviewedFiles[k].Path = call.files[i].Path
        /\ call.files[i].Status = "unreviewed"
        /\ \E m \in ReviewMaps(call.files[j].Path) : ValuesOf(m) = {StateApproved}
        /\ call.files[j].Status = StateApproved

\* C4 as claimed: one distinct decision among the range entries gives that
\* decision, more than one gives mixed
C4_MixedAsClaimed ==
    Extracted =>
        \A i \in 1..Len(call.files) :
            \A m \in ReviewMaps(call.files[i].Path) :
                LET ds == ValuesOf(m) \cap Decisions
                IN /\ Cardinality(ds) = 1 => call.files[i].Status \in ds
                   /\ Cardinality(ds) > 1 => call.files[i].Status = "mixed"

\* C4: one distinct decision among the range entries of a file's FileReview
\* gives that decision; more than one gives rejected when one of them is
\* rejected and approved otherwise; no file of the list is mixed
C4_StatusByPriority ==
    Extracted =>
        \A i \in 1..Len(call.files) :
            /\ call.files[i].Status # "mixed"
            /\ \A m \in ReviewMaps(call.files[i].Path) :
                LET ds == ValuesOf(m) \cap Decisions
                IN /\ Cardinality(ds) = 1 => call.files[i].Status \in ds
                   /\ Cardinality(ds) > 1 =>
                        call.files[i].Status =
                            IF StateRejected \in ds THEN StateRejected
                            ELSE StateApproved

\* a list with a file whose entries hold approved and rejected, one whose
\* entries hold approved and skipped, or one with a single decision
C4_Witness ==
    /\ Extracted
    /\ \E i, j \in 1..Len(call.files) :
        /\ \E m \in ReviewMaps(call.files[i].Path) :
              ValuesOf(m) = {StateApproved, StateRejected}
        /\ call.files[i].Status = StateRejected
        /\ \E m \in ReviewMaps(call.files[j].Path) :
              ValuesOf(m) = {StateApproved, StateSkipped}
        /\ call.files[j].Status = StateApproved

\* the order the list is claimed to have
ClaimedPriority(status) ==
    CASE status = "unreviewed" -> 0
      [] status = StateSkipped -> 1
      [] status = StateRejected -> 2
      [] status = StateApproved -> 3

\* C5: the list is sorted by status priority unreviewed < skipped < rejected
\* < approved and by path within a status, so that every unreviewed file
\* precedes every reviewed file
C5_SortedByStatusThenPath ==
    Extracted =>
        /\ \A i \in 1..Len(call.files) :
              call.files[i].Status \in {"unreviewed"} \cup Decisions
        /\ \A i \in 1..(Len(call.files) - 1) :
            LET x == call.files[i]
                y == call.files[i + 1]
            IN \/ ClaimedPriority(x.Status) < ClaimedPriority(y.Status)
               \/ /\ ClaimedPriority(x.Status) = ClaimedPriority(y.Status)
                  /\ (x.Path = y.Path \/ StrLess(x.Path, y.Path))
        /\ \A i, j \in 1..Len(call.files) :
              (call.files[i].Status = "unreviewed" /\ call.files[j].Status # "unreviewed")
                  => i < j

\* the diff lists a, ab, b in another order than the list has them: a is
\* approved, b skipped, ab unreviewed, and the list is ab, b, a
C5_Witness ==
    /\ Extracted
    /\ call.files = <<[Path |-> PathAB, Status |-> "unreviewed"],
                      [Path |-> PathB, Status |-> StateSkipped],
                      [Path |-> PathA, Status |-> StateApproved]>>
    /\ call.diffText = JoinLines(<<HeaderLine(PathA), HeaderLine(PathAB),
                                   HeaderLine(PathB)>>)

\* the paths of the well-formed headers of a diff text
HeaderPaths(diffText) ==
    LET lines == Split(diffText, "\n")
    IN {p \in Paths : \E i \in 1..Len(lines) : lines[i] = HeaderLine(p)}

\* C6: the list is a permutation of the paths of the diff's well-formed
\* headers: each once, none dropped, none added from the ledger
C6_PermutationOfHeaders ==
    Extracted =>
        LET paths == HeaderPaths(call.diffText)
        IN /\ {call.files[i].Path : i \in 1..Len(call.files)} = paths
           /\ Len(call.files) = Cardinality(paths)

\* a diff with two headers and a malformed header, and a ledger with an entry
\* for a path the diff does not have
C6_Witness ==
    /\ Extracted
    /\ Len(call.files) = 2
    /\ Len(Split(call.diffText, "\n")) = 3
    /\ \E i \in 1..Len(Split(call.diffText, "\n")) :
          Split(call.diffText, "\n")[i] = DiffGitPrefix \o <<"a", "/", "a", " ", "a", "/", "a">>
    /\ \E k \in 1..Len(call.reviewState.ReviewedFiles) :
          /\ call.reviewState.ReviewedFiles[k].Repo = call.repoPath
          /\ call.reviewState.ReviewedFiles[k].Path \notin HeaderPaths(call.diffText)

(***************************************************************************)
(* Properties of the server, checked under Spec.                           *)
(***************************************************************************)
\* the page handleDiffView has just rendered
DiffPage == resp.handler = "diff" /\ resp.code = 200

\* the decisions recorded for a repository under a commit pair
RecordedUnder(repo, sourceCommit, targetCommit) ==
    {i \in 1..Len(history) :
        /\ history[i].repo = repo
        /\ history[i].source_commit = sourceCommit
        /\ history[i].target_commit = targetCommit}

\* C1: the diff view loads the ledger of the commits the branches point at now:
\* when no decision was ever recorded for the repository under that commit
\* pair, every file of the list is unreviewed, whatever was recorded under
\* other commit pairs
C1_FreshLedgerPerCommitPair ==
    (DiffPage /\ RecordedUnder(resp.RepoPath, resp.SourceCommit, resp.TargetCommit) = {})
        => /\ \A i \in 1..Len(resp.Files) : resp.Files[i].Status = "unreviewed"
           /\ resp.FileStatus \in {"", "unreviewed"}

\* decisions were recorded for the repository under the commit pair its
\* branches had; the source branch has moved since, and the page lists files
C1_Witness ==
    /\ DiffPage
    /\ resp.Files # <<>>
    /\ RecordedUnder(resp.RepoPath, resp.SourceCommit, resp.TargetCommit) = {}
    /\ \E i \in 1..Len(history) :
          /\ history[i].repo = resp.RepoPath
          /\ history[i].source_commit # resp.SourceCommit
          /\ history[i].target_commit = resp.TargetCommit
          /\ \E j \in 1..Len(resp.Files) : resp.Files[j].Path = history[i].file
    /\ \A i \in 1..Len(resp.Files) : resp.Files[i].Status = "unreviewed"

\* the decision recorded last for a file of a repository under a commit pair
LastRecorded(repo, sourceCommit, targetCommit, file) ==
    LET is == {i \in RecordedUnder(repo, sourceCommit, targetCommit) :
                  history[i].file = file}
    IN IF is = {} THEN "none"
       ELSE history[CHOOSE i \in is : \A j \in is : j <= i].status

\* C2: the status of a file in the list is the decision recorded last for it
\* under the page's commit pair: a later decision overwrites an earlier one
C2_LastDecisionWins ==
    DiffPage =>
        \A i \in 1..Len(resp.Files) :
            LET last == LastRecorded(resp.RepoPath, resp.SourceCommit,
                                     resp.TargetCommit, resp.Files[i].Path)
            IN last # "none" => resp.Files[i].Status = last

\* approved, then rejected was recorded for one file, and the list has it
\* rejected
C2_Witness ==
    /\ DiffPage
    /\ Len(history) = 2
    /\ history[1].status = StateApproved
    /\ history[2] = [history[1] EXCEPT !.status = StateRejected]
    /\ history[2].repo = resp.RepoPath
    /\ history[2].source_commit = resp.SourceCommit
    /\ history[2].target_commit = resp.TargetCommit
    /\ \E i \in 1..Len(resp.Files) :
          /\ resp.Files[i].Path = history[2].file
          /\ resp.Files[i].Status = StateRejected

(***************************************************************************)
(* Properties of the ledger store, checked under SpecStorage.              *)
(***************************************************************************)
Saved == call.op = "SaveReviewState"

Loaded == call.op = "LoadReviewState"

\* the FileReview entries of a ledger, as a set
FileReviews(state) == {state.ReviewedFiles[i] : i \in 1..Len(state.ReviewedFiles)}

\* C7: a load that follows a successful save, for the same repository and the
\* commits of the saved ledger, returns the FileReview entries, the branch
\* names and the commits of the saved ledger
C7_SaveLoadRoundTrip ==
    [][(/\ Saved
        /\ call.err = ""
        /\ call'.op = "LoadReviewState"
        /\ call'.repoPath = call.repoPath
        /\ call'.sourceCommit = call.state.SourceCommit
        /\ call'.targetCommit = call.state.TargetCommit)
       => /\ call'.err = ""
          /\ FileReviews(call'.state) = FileReviews(call.state)
          /\ Len(call'.state.ReviewedFiles) = Len(call.state.ReviewedFiles)
          /\ call'.state.SourceBranch = call.state.SourceBranch
          /\ call'.state.TargetBranch = call.state.TargetBranch
          /\ call'.state.SourceCommit = call.state.SourceCommit
          /\ call'.state.TargetCommit = call.state.TargetCommit]_vars

\* the first call saved a ledger of two entries, the second loaded it under
\* another branch name
C7_Witness ==
    /\ Loaded
    /\ ncalls = 2
    /\ call.err = ""
    /\ Len(call.state.ReviewedFiles) = 2
    /\ call.sourceBranch = "topic"
    /\ call.state.SourceBranch = "feature"

\* whether a ledger document is persisted for the key of the last load
Persisted ==
    Append(reviewDir(call.repoPath, call.sourceCommit, call.targetCommit),
           ReviewStateFile) \in DOMAIN fs.files

\* C8: a load with both commits given and no document persisted for its key
\* returns no error and an empty ledger with the caller's branch names and
\* commits
C8_LoadMissingIsEmpty ==
    (Loaded /\ call.sourceCommit # "" /\ call.targetCommit # "" /\ ~Persisted)
        => /\ call.err = ""
           /\ call.state = ReviewState(<<>>, call.sourceBranch, call.targetBranch,
                                       call.sourceCommit, call.targetCommit)

\* a load of a key with nothing persisted, while another key has a document
C8_Witness ==
    /\ Loaded
    /\ call.sourceCommit # ""
    /\ call.targetCommit # ""
    /\ ~Persisted
    /\ DOMAIN fs.files # {}
    /\ call.err = ""
    /\ call.state.ReviewedFiles = <<>>

\* C9: a save of a ledger without source commit or without target commit
\* returns an error and leaves the store as it was: no file and no directory
\* is created or changed
C9_SaveWithoutCommitsFails ==
    [][(/\ call'.op = "SaveReviewState"
        /\ ncalls' = ncalls + 1
        /\ (call'.state.SourceCommit = "" \/ call'.state.TargetCommit = ""))
       => /\ call'.err # ""
          /\ call'.ops = <<>>
          /\ fs' = fs]_vars

\* a save of a ledger with entries and a source commit, without target commit,
\* failed
C9_Witness ==
    /\ Saved
    /\ call.state.SourceCommit # ""
    /\ call.state.TargetCommit = ""
    /\ call.state.ReviewedFiles # <<>>
    /\ call.err # ""

\* C10: a load without source commit or without target commit returns an empty
\* ledger with the caller's branch names and makes no file-system call: the
\* store is as it was
C10_LoadWithoutCommitsTouchesNothing ==
    [][(/\ call'.op = "LoadReviewState"
        /\ ncalls' = ncalls + 1
        /\ (call'.sourceCommit = "" \/ call'.targetCommit = ""))
       => /\ call'.err = ""
          /\ call'.state.ReviewedFiles = <<>>
          /\ call'.state.SourceBranch = call'.sourceBranch
          /\ call'.state.TargetBranch = call'.targetBranch
          /\ call'.ops = <<>>
          /\ fs' = fs]_vars

\* a load with a source commit and no target commit, while documents are
\* persisted
C10_Witness ==
    /\ Loaded
    /\ call.sourceCommit # ""
    /\ call.targetCommit = ""
    /\ DOMAIN fs.files # {}
    /\ call.state.ReviewedFiles = <<>>
    /\ call.ops = <<>>

\* the branch names a caller of LoadReviewState passes
BranchNames == {"feature", "main", "topic"}

\* C11: branch names are no part of a ledger's identity: what a load returns
\* for a repository and a commit pair is what every load of that repository
\* and commit pair returns under any other branch names, and, when a document
\* is persisted, the entries that were saved, under whatever branch names
C11_BranchNamesNotIdentity ==
    (Loaded /\ call.err = "" /\ call.sourceCommit # "" /\ call.targetCommit # "")
        => /\ \A sb \in BranchNames, tb \in BranchNames :
                 FileReviews(LoadReviewState(fs, call.repoPath, sb, tb,
                                             call.sourceCommit,
                                             call.targetCommit).state)
                     = FileReviews(call.state)
           /\ Persisted =>
                 call.state.ReviewedFiles =
                     Unmarshal(fs.files[Append(reviewDir(call.repoPath,
                                                         call.sourceCommit,
                                                         call.targetCommit),
                                               ReviewStateFile)]).ReviewedFiles

\* a ledger with one entry, saved under the branch name "feature", is returned
\* to a load that passes the branch name "topic"
C11_Witness ==
    /\ Loaded
    /\ Persisted
    /\ call.sourceBranch = "topic"
    /\ call.state.SourceBranch = "feature"
    /\ Len(call.state.ReviewedFiles) = 1
    /\ call.repoPath = RepoAB

(***************************************************************************)
(* Properties of concurrent requests, checked under SpecConcurrent.        *)
(***************************************************************************)
\* the path of the ledger document a request to /api/review-state works on
LedgerPath(req) ==
    Append(reviewDir(req.repo, req.source_commit, req.target_commit), ReviewStateFile)

\* the entries of the ledger document at a path of a file system; none when
\* there is no document
EntriesAt(fsys, path) ==
    IF path \in DOMAIN fsys.files /\ fsys.files[path] # Truncated
    THEN fsys.files[path].reviewed_files
    ELSE <<>>

\* whether a ledger document has an entry for the file of a request
HasEntryFor(entries, req) ==
    \E k \in 1..Len(entries) :
        entries[k].repo = req.repo /\ entries[k].path = req.file

\* request i has been answered with the redirect that follows a save
Succeeded(i) == inflight[i].pc = "done" /\ inflight[i].resp.code = 303

\* no request is between the opening and the write of its file
Quiescent == \A k \in 1..Len(inflight) : inflight[k].pc # "writing"

\* requests i and j, for two files of one ledger that had an entry for
\* neither, both loaded the ledger before either saved it; both have
\* succeeded and theirs are the last two saves
Raced(i, j) ==
    /\ i # j
    /\ Succeeded(i) /\ Succeeded(j)
    /\ Quiescent
    /\ inflight[i].req.repo = inflight[j].req.repo
    /\ inflight[i].req.source_commit = inflight[j].req.source_commit
    /\ inflight[i].req.target_commit = inflight[j].req.target_commit
    /\ inflight[i].req.file # inflight[j].req.file
    /\ ~HasEntryFor(Marshal(inflight[i].existingState).reviewed_files, inflight[j].req)
    /\ ~HasEntryFor(Marshal(inflight[j].existingState).reviewed_files, inflight[i].req)
    /\ Len(history) >= 2
    /\ {history[Len(history)].by, history[Len(history) - 1].by} = {i, j}

\* C12: when two requests for two files of one ledger both load before either
\* saves, both succeed and the persisted ledger is the one of the request
\* that saved last: it has that request's decision and no entry for the file
\* of the other
C12_LostUpdate ==
    \A i, j \in 1..Len(inflight) :
        (Raced(i, j) /\ history[Len(history)].by = i)
            => /\ fs.files[LedgerPath(inflight[i].req)] = Marshal(inflight[i].existingState)
               /\ HasEntryFor(EntriesAt(fs, LedgerPath(inflight[i].req)), inflight[i].req)
               /\ ~HasEntryFor(EntriesAt(fs, LedgerPath(inflight[i].req)), inflight[j].req)

\* the two requests raced on an empty ledger; the first to load saved last,
\* and its single entry is all the ledger holds
C12_Witness ==
    /\ Len(inflight) = 2
    /\ Raced(1, 2)
    /\ history[Len(history)].by = 1
    /\ Len(EntriesAt(fs, LedgerPath(inflight[1].req))) = 1
    /\ HasEntryFor(EntriesAt(fs, LedgerPath(inflight[1].req)), inflight[1].req)
    /\ ~HasEntryFor(EntriesAt(fs, LedgerPath(inflight[1].req)), inflight[2].req)

\* the storage location of the ledger of a request: the repository path with
\* "/" and ":" replaced, and the two commits
Location(req) ==
    <<ReplaceAll(ReplaceAll(req.repo, "/", "_"), ":", "_"),
      req.source_commit, req.target_commit>>

\* request i is valid and shares its storage location with no other request
\* being served
Apart(i) ==
    /\ inflight[i].req.status \in Decisions
    /\ inflight[i].req.source_commit # "" /\ inflight[i].req.target_commit # ""
    /\ \A k \in 1..Len(inflight) : k # i => Location(inflight[k].req) # Location(inflight[i].req)

\* C13: a request whose ledger is at a storage location of its own succeeds in
\* every interleaving, and once it has, its ledger is the one the request
\* would have left had it been served alone when the first request arrived
C13_LedgersIndependent ==
    \A i \in 1..Len(inflight) :
        Apart(i) =>
            /\ inflight[i].pc = "done" => Succeeded(i)
            /\ Succeeded(i) =>
                  fs.files[LedgerPath(inflight[i].req)] =
                      handleReviewState(inflight[1].before, inflight[i].req)
                          .fs.files[LedgerPath(inflight[i].req)]

\* two requests for the same file under two commit pairs have both succeeded,
\* the second having loaded while the first was writing, and each ledger
\* holds its decision
C13_Witness ==
    /\ Len(inflight) = 2
    /\ Apart(1) /\ Apart(2)
    /\ Succeeded(1) /\ Succeeded(2)
    /\ inflight[1].req.file = inflight[2].req.file
    /\ inflight[2].before.files # inflight[1].before.files
    /\ history[Len(history)].by = 1
    /\ HasEntryFor(EntriesAt(fs, LedgerPath(inflight[1].req)), inflight[1].req)
    /\ HasEntryFor(EntriesAt(fs, LedgerPath(inflight[2].req)), inflight[2].req)

\* the paths of the ledger documents that are persisted and complete
Ledgers ==
    {path \in DOMAIN fs.files :
        path # <<RepositoriesFile>> /\ fs.files[path] # Truncated}

\* C16: every persisted ledger holds at most one FileReview per (repository,
\* path)
C16_UniqueByRepoAndPath ==
    \A path \in Ledgers :
        LET entries == fs.files[path].reviewed_files
        IN \A m, n \in 1..Len(entries) :
              (entries[m].repo = entries[n].repo /\ entries[m].path = entries[n].path)
                  => m = n

\* two requests for one file, raced after an earlier request for it, have
\* succeeded, and the ledger holds one entry
C16_Witness ==
    /\ Len(inflight) = 2
    /\ Succeeded(1) /\ Succeeded(2)
    /\ Len(history) = 3
    /\ LedgerPath(inflight[1].req) = LedgerPath(inflight[2].req)
    /\ inflight[1].req.repo = inflight[2].req.repo
    /\ inflight[1].req.file = inflight[2].req.file
    /\ inflight[1].req.status # inflight[2].req.status
    /\ history[1].file = inflight[1].req.file
    /\ history[1].repo = inflight[1].req.repo
    /\ inflight[2].before.files = inflight[1].before.files
    /\ Len(EntriesAt(fs, LedgerPath(inflight[1].req))) = 1

\* every value of every range entry of every persisted ledger is a decision
PersistedAreDecisions ==
    \A path \in Ledgers :
        LET entries == fs.files[path].reviewed_files
        IN \A m \in 1..Len(entries) :
              \A token \in DOMAIN entries[m].lines :
                  entries[m].lines[token] \in Decisions

\* C17: a request whose status is none of approved, rejected, skipped is
\* answered 400 at once and leaves the store, its directories included, as it
\* was; and every persisted decision value is one of the three
C17_InvalidStatusRejected ==
    /\ []PersistedAreDecisions
    /\ [][(/\ Len(inflight') = Len(inflight) + 1
           /\ inflight'[Len(inflight')].req.status \notin Decisions)
          => /\ inflight'[Len(inflight')].pc = "done"
             /\ inflight'[Len(inflight')].resp.code = 400
             /\ fs' = fs]_vars

\* a request with status "mixed" was answered 400 while a ledger of the same
\* key is persisted, and the store is as that request found it
C17_Witness ==
    /\ Len(inflight) = 2
    /\ Succeeded(1)
    /\ inflight[2].req.status = "mixed"
    /\ inflight[2].resp.code = 400
    /\ inflight[2].pc = "done"
    /\ LedgerPath(inflight[2].req) \in Ledgers
    /\ inflight[2].before = fs

\* C19: whenever the load of the ledger fails, the request that needed the
\* ledger ends in an error page: a request to /api/review-state, and a request
\* to /diff as well
C19_LoadFailureIsError ==
    /\ \A i \in 1..Len(inflight) :
          inflight[i].loadErr # ""
              => inflight[i].pc = "done" /\ inflight[i].resp.code = 500
    /\ (call.op = "handleDiffView" /\ call.loadErr # "") => resp.code = 500

(***************************************************************************)
(* Properties of the ledger store, checked under SpecStorage.              *)
(***************************************************************************)
\* C18: the load of a persisted ledger in which a range entry holds a value
\* that is none of approved, rejected, skipped returns an error
C18_InvalidDecisionIsFault ==
    (/\ Loaded
     /\ call.sourceCommit # "" /\ call.targetCommit # ""
     /\ Persisted
     /\ LET entries == fs.files[Append(reviewDir(call.repoPath, call.sourceCommit,
                                                 call.targetCommit),
                                       ReviewStateFile)].reviewed_files
        IN \E m \in 1..Len(entries) :
              \E token \in DOMAIN entries[m].lines :
                  entries[m].lines[token] \notin Decisions)
        => call.err # ""

(***************************************************************************)
(* Properties of recording, checked under SpecRecord.                      *)
(***************************************************************************)
\* the last request was served and its update saved
RecordedAndSaved == call.op = "handleReviewState" /\ call.saved

\* C14: recording is idempotent: a request that repeats the request before
\* it, after that one was saved, is saved too and leaves the store, and so
\* every entry and range map of the ledger, as the first left it
C14_RecordingIdempotent ==
    [][(/\ RecordedAndSaved
        /\ Len(history') = Len(history) + 1
        /\ call'.req = call.req)
       => /\ call'.saved
          /\ fs' = fs]_vars

\* the same decision was recorded twice for a file whose entry, before,
\* held line decisions and no "all"
C14_Witness ==
    /\ RecordedAndSaved
    /\ Len(history) = 2
    /\ history[1] = history[2]
    /\ \E k \in 1..Len(call.loaded.ReviewedFiles) :
          /\ call.loaded.ReviewedFiles[k].Repo = call.req.repo
          /\ call.loaded.ReviewedFiles[k].Path = call.req.file
          /\ DOMAIN call.loaded.ReviewedFiles[k].Lines = {"1", "2", "all"}
          /\ call.loaded.ReviewedFiles[k].Lines["all"] = call.req.status

\* the ledger persisted for the key of the last request
SavedLedger == Unmarshal(fs.files[LedgerPath(call.req)])

\* the positions of the entries of the loaded ledger for the file of the last
\* request
Matching ==
    {k \in 1..Len(call.loaded.ReviewedFiles) :
        /\ call.loaded.ReviewedFiles[k].Repo = call.req.repo
        /\ call.loaded.ReviewedFiles[k].Path = call.req.file}

\* C15: a request that is saved changes one thing in the ledger it loaded:
\* without entry for (repository, path), an entry with exactly
\* {"all": decision} is appended; otherwise the "all" entry of the first such
\* entry is set to the decision.  Every other entry, every other range token
\* and the branch and commit fields are as loaded
C15_RecordChangesOnlyAll ==
    RecordedAndSaved =>
        LET before == call.loaded.ReviewedFiles
            after == SavedLedger.ReviewedFiles
        IN /\ SavedLedger.SourceBranch = call.loaded.SourceBranch
           /\ SavedLedger.TargetBranch = call.loaded.TargetBranch
           /\ SavedLedger.SourceCommit = call.loaded.SourceCommit
           /\ SavedLedger.TargetCommit = call.loaded.TargetCommit
           /\ IF Matching = {}
              THEN after = Append(before, FileReview(call.req.repo, call.req.file,
                                                     ("all" :> call.req.status)))
              ELSE LET first == CHOOSE k \in Matching : \A m \in Matching : k <= m
                   IN /\ Len(after) = Len(before)
                      /\ \A k \in 1..Len(before) : k # first => after[k] = before[k]
                      /\ after[first].Repo = before[first].Repo
                      /\ after[first].Path = before[first].Path
                      /\ DOMAIN after[first].Lines = DOMAIN before[first].Lines \cup {"all"}
                      /\ after[first].Lines["all"] = call.req.status
                      /\ \A token \in DOMAIN before[first].Lines :
                            token # "all" =>
                                after[first].Lines[token] = before[first].Lines[token]

\* a decision was recorded for a file whose entry held two line decisions,
\* in a ledger, saved under another branch name, that has a second entry
C15_Witness ==
    /\ RecordedAndSaved
    /\ Len(history) = 1
    /\ Len(call.loaded.ReviewedFiles) = 2
    /\ Matching = {2}
    /\ DOMAIN call.loaded.ReviewedFiles[2].Lines = {"1", "2"}
    /\ call.loaded.SourceBranch = "topic"
    /\ call.req.source = "feature"
    /\ DOMAIN SavedLedger.ReviewedFiles[2].Lines = {"1", "2", "all"}

(***************************************************************************)
(* Properties of the parsing of headers, checked under SpecExtract.        *)
(***************************************************************************)
\* a line that starts with "diff --git " and has fewer than four fields, or a
\* fourth field that does not start with "b/"
Malformed(line) ==
    /\ HasPrefix(line, DiffGitPrefix)
    /\ LET parts == Split(line, " ")
       IN Len(parts) < 4 \/ ~HasPrefix(parts[4], BPrefix)

\* C20: a malformed header yields no entry and does not keep a later
\* well-formed header from yielding its own: the list has one entry per
\* header that is not malformed, and a text without such a header, the empty
\* text included, yields the empty list
C20_MalformedHeadersSkipped ==
    Extracted =>
        LET lines == Split(call.diffText, "\n")
            headers == {i \in 1..Len(lines) :
                           HasPrefix(lines[i], DiffGitPrefix) /\ ~Malformed(lines[i])}
            paths == {call.files[k].Path : k \in 1..Len(call.files)}
        IN /\ Len(call.files) = Cardinality(headers)
           /\ \A i \in 1..Len(lines) :
                 Malformed(lines[i]) =>
                     \A j \in headers :
                         j > i => SubSeq(Split(lines[j], " ")[4], 3,
                                         Len(Split(lines[j], " ")[4])) \in paths
           /\ headers = {} => call.files = <<>>

\* the two malformed headers come before a well-formed one, which yields the
\* only entry
C20_Witness ==
    /\ Extracted
    /\ LET lines == Split(call.diffText, "\n")
       IN /\ Len(lines) = 3
          /\ Malformed(lines[1]) /\ Len(Split(lines[1], " ")) < 4
          /\ Malformed(lines[2]) /\ Len(Split(lines[2], " ")) >= 4
          /\ lines[3] = HeaderLine(PathAB)
    /\ Len(call.files) = 1
    /\ call.files[1].Path = PathAB

(***************************************************************************)
(* Navigation over the ordered list of files.                              *)
(***************************************************************************)
\* a page of /diff that shows a selected file
FilePage == DiffPage /\ resp.SelectedFile # <<>>

\* the indexes at which the list of the page holds the selected file
SelectedAt == {i \in 1..Len(resp.Files) : resp.Files[i].Path = resp.SelectedFile}

\* the file the page's previous link and next link lead to
PrevLink == getElementById(fileLinks(resp.Files, resp.SelectedFile), "prev-file-link")
NextLink == getElementById(fileLinks(resp.Files, resp.SelectedFile), "next-file-link")

\* C21: on a page of /diff whose selected file is entry i of the ordered list,
\* the next file is defined exactly when i is not the last index and is the
\* entry after i, and the previous file is defined exactly when i is not the
\* first index and is the entry before i; when the selected file is not in
\* the list neither is defined; the NextFilePath of handleDiffView and the
\* next link of the template name the same path.
C21_NavigationByIndex ==
    FilePage =>
        /\ NextLink = resp.NextFilePath
        /\ SelectedAt = {} => resp.NextFilePath = <<>> /\ PrevLink = <<>>
        /\ \A i \in SelectedAt :
              /\ resp.NextFilePath # <<>> <=> i < Len(resp.Files)
              /\ i < Len(resp.Files) => resp.NextFilePath = resp.Files[i + 1].Path
              /\ PrevLink # <<>> <=> i > 1
              /\ i > 1 => PrevLink = resp.Files[i - 1].Path

\* a page whose selected file has both a file before it and a file after it
C21_Witness ==
    /\ FilePage
    /\ \E i \in SelectedAt : i > 1 /\ i < Len(resp.Files)
    /\ resp.NextFilePath # <<>> /\ PrevLink # <<>>

(***************************************************************************)
(* The registry of known repositories, checked under SpecRegistry.         *)
(***************************************************************************)
\* a sequence that holds no value twice
NoDuplicates(repos) ==
    \A i, j \in 1..Len(repos) : repos[i] = repos[j] => i = j

\* the registry holds no identifier twice whenever it can be read
RegistryUnique == ~repositoriesUnreadable(fs) => NoDuplicates(LoadRepositories(fs))

\* a step in which call k returns or writes
AddReturns(k) ==
    /\ k <= Len(inflight')
    /\ inflight'[k].pc = "done"
    /\ k <= Len(inflight) => inflight[k].pc # "done"

\* C22: starting from a registry without duplicates, under every interleaving
\* of AddRepository calls the registry never holds an identifier twice; a call
\* whose path equals an entry succeeds without writing, and a call whose path
\* is new writes the entries it found, in their order, and the path after them.
C22_RegistryWithoutDuplicates ==
    /\ []RegistryUnique
    /\ [][\A k \in 1..Len(inflight') :
            AddReturns(k) =>
               LET p == inflight'[k]
                   present == \E i \in 1..Len(p.loaded) : p.loaded[i] = p.path
               IN /\ (p.ok /\ present) => ~p.wrote /\ fs' = fs
                  /\ p.wrote =>
                        /\ p.ok /\ ~present
                        /\ LoadRepositories(fs') = Append(p.loaded, p.path)
                        /\ SubSeq(LoadRepositories(fs'), 1, Len(p.loaded)) = p.loaded
                  /\ p.ok => p.wrote \/ present]_vars

\* two calls add one new path, both found it missing and both wrote; a third
\* call made afterwards finds the path and succeeds without writing
C22_Witness ==
    /\ Len(inflight) = 3
    /\ \A k \in 1..3 : inflight[k].pc = "done" /\ inflight[k].ok
    /\ inflight[1].path = inflight[2].path /\ inflight[2].path = inflight[3].path
    /\ inflight[1].wrote /\ inflight[2].wrote /\ ~inflight[3].wrote
    /\ Len(LoadRepositories(fs)) > 1

(***************************************************************************)
(* The review loop, checked under SpecLoop.                                *)
(***************************************************************************)
\* the repository the reviewer works on and the ledger persisted for the
\* commits its branches point at
LoopRepo == LoadRepositories(fs)[1]

LoopLedger(fsys) ==
    LoadReviewState(fsys, LoopRepo, "feature", "main",
                    heads[<<LoopRepo, "feature">>], heads[<<LoopRepo, "main">>]).state

\* the ordered list of the files of the diff, with their statuses
LoopFiles == extractFilesFromDiff(GetDiff(heads, LoopRepo, "feature", "main"),
                                  LoopLedger(fs), LoopRepo)

\* no file of the diff is unreviewed
AllReviewed == \A i \in 1..Len(LoopFiles) : LoopFiles[i].Status # "unreviewed"

\* the page shown lists no unreviewed file
PageAllReviewed ==
    \A i \in 1..Len(resp.Files) : resp.Files[i].Status # "unreviewed"

\* the page shown lists its selected file as unreviewed
SelectedUnreviewed ==
    /\ resp.FileStatus = "unreviewed"
    /\ \E i \in 1..Len(resp.Files) :
          resp.Files[i].Path = resp.SelectedFile /\ resp.Files[i].Status = "unreviewed"

\* the reviewer has a next request: the list is to be opened, or the response
\* is a list with files, a page with a selected file, or a redirect
CanContinue ==
    \/ resp.handler = "none"
    \/ DiffPage /\ (resp.SelectedFile # <<>> \/ resp.Files # <<>>)
    \/ resp.handler = "reviewState" /\ resp.code = 303

\* how far the loop has come: two requests for every decision
LoopProgress ==
    2 * Len(history) +
    (IF resp.handler = "none" THEN 0
     ELSE IF DiffPage /\ resp.SelectedFile # <<>> THEN 2
     ELSE 1)

\* C23: a reviewer who opens the first file of the ordered list of a fixed
\* diff with n files and an empty ledger, and then again and again records a
\* decision and follows the redirect, records each of the first n decisions
\* on a file that is unreviewed at that moment; the loop never stops at an
\* error and every request brings it forward, so that n decisions are
\* reached; a page shows no unreviewed file exactly from n decisions on.
C23_ReviewLoopCompletes ==
    /\ [][(history' # history /\ Len(history) < Len(resp.Files)) =>
            /\ history'[Len(history')].file = resp.SelectedFile
            /\ SelectedUnreviewed]_vars
    /\ [](DiffPage => (Len(history) >= Len(resp.Files) <=> PageAllReviewed))
    /\ []CanContinue
    /\ [][LoopProgress' > LoopProgress]_vars

\* the reviewer has recorded as many decisions as the diff has files, the last
\* of them on the page the second redirect led to
C23_Witness ==
    /\ Len(LoopFiles) = 3
    /\ Len(history) = 3
    /\ {history[k].file : k \in 1..3} = {PathA, PathAB, PathB}
    /\ resp.handler = "reviewState" /\ resp.code = 303
    /\ AllReviewed

(***************************************************************************)
(* Decisions and moving branches, checked under SpecStale.                 *)
(***************************************************************************)
\* the decision the step has recorded
Decided == history'[Len(history')]

\* the location of the ledger of the commits the branches of a repository
\* point at
HeadLedgerPath(repo) ==
    Append(reviewDir(repo, heads[<<repo, "feature">>], heads[<<repo, "main">>]),
           ReviewStateFile)

\* C24: a decision is stored under the commit pair its request carries, the
\* pair of the page the form was rendered on: the ledger of that pair gets the
\* decision and no other document changes; when the branch has moved since
\* the page was rendered, the ledger of the commits the branches point at now
\* is left as it was.
C24_StoredUnderRequestPair ==
    [][history' # history =>
        /\ Decided.source_commit = resp.SourceCommit
        /\ Decided.target_commit = resp.TargetCommit
        /\ \E k \in 1..Len(EntriesAt(fs', LedgerPath(Decided))) :
              LET entry == EntriesAt(fs', LedgerPath(Decided))[k]
              IN /\ entry.repo = Decided.repo /\ entry.path = Decided.file
                 /\ entry.lines = ("all" :> Decided.status)
        /\ fs'.files[LedgerPath(Decided)].source_commit = Decided.source_commit
        /\ fs'.files[LedgerPath(Decided)].target_commit = Decided.target_commit
        /\ \A path \in DOMAIN fs'.files :
              path # LedgerPath(Decided) =>
                 path \in DOMAIN fs.files /\ fs'.files[path] = fs.files[path]
        /\ HeadLedgerPath(Decided.repo) # LedgerPath(Decided) =>
              EntriesAt(fs', HeadLedgerPath(Decided.repo))
                 = EntriesAt(fs, HeadLedgerPath(Decided.repo))]_vars

\* a decision has just been stored under a pair the source branch no longer
\* points at, while the pair it points at now has a ledger of its own
C24_Witness ==
    /\ history # <<>>
    /\ resp.handler = "reviewState" /\ resp.code = 303
    /\ LET d == history[Len(history)]
       IN /\ d.source_commit # heads[<<d.repo, "feature">>]
          /\ resp.location.source_commit = d.source_commit
          /\ HasEntryFor(EntriesAt(fs, LedgerPath(d)), d)
          /\ EntriesAt(fs, HeadLedgerPath(d.repo)) # <<>>
          /\ ~HasEntryFor(EntriesAt(fs, HeadLedgerPath(d.repo)), d)

(***************************************************************************)
(* Repositories that share a storage location, checked under Spec.         *)
(***************************************************************************)
\* the request to /diff that shows a file of a repository
FileView(repo, file) ==
    [repo |-> repo, source |-> "feature", target |-> "main", file |-> file]

\* C25: a decision recorded for a path of one repository changes neither the
\* status of any path in the list shown for another repository nor the
\* status shown for it as the selected file, also when the two repositories
\* share the storage location of their ledgers.
C25_NoLeakBetweenRepositories ==
    [][history' # history =>
        \A other \in GitRepos \ {history'[Len(history')].repo} :
           \A file \in Paths :
              handleDiffView(fs', heads', FileView(other, file)).resp
                 = handleDiffView(fs, heads, FileView(other, file)).resp]_vars

\* a decision on a path has just been stored in a document that holds another
\* decision on that path for a registered repository with the same safe path
C25_Witness ==
    /\ history # <<>>
    /\ resp.handler = "reviewState" /\ resp.code = 303
    /\ LET d == history[Len(history)]
           entries == EntriesAt(fs, LedgerPath(d))
       IN /\ HasEntryFor(entries, d)
          /\ \E k \in 1..Len(entries) :
                /\ entries[k].repo # d.repo /\ entries[k].path = d.file
                /\ entries[k].lines # ("all" :> d.status)
                /\ GetRepository(fs, entries[k].repo)
                /\ heads[<<entries[k].repo, "feature">>] = d.source_commit
                /\ handleDiffView(fs, heads, FileView(entries[k].repo, d.file)).resp.FileStatus
                      = entries[k].lines["all"]

(***************************************************************************)
(* Requests that fail, checked under SpecConcurrent.                       *)
(***************************************************************************)
\* request k has been answered with an error page
Failed(k) == inflight[k].pc = "done" /\ inflight[k].resp.code # 303

\* the step in which request k is answered with an error page
Fails(k) ==
    /\ k <= Len(inflight')
    /\ inflight'[k].pc = "done" /\ inflight'[k].resp.code # 303
    /\ k <= Len(inflight) => inflight[k].pc # "done"

\* C26: the step in which a request to /api/review-state fails, for a missing
\* parameter, an invalid status or an error of the load, changes no file and
\* no directory, and the request takes no step afterwards; every request
\* whose load returned an error fails, so that a ledger document that cannot
\* be read is not overwritten by a ledger that holds the new decision only.
C26_FailureLeavesStorage ==
    /\ [][\A k \in 1..Len(inflight') : Fails(k) => fs' = fs]_vars
    /\ [][\A k \in 1..Len(inflight) : Failed(k) => inflight'[k] = inflight[k]]_vars
    /\ [][(ncalls' # ncalls /\ history' = history) => fs' = fs]_vars
    /\ [](\A k \in 1..Len(inflight) : inflight[k].loadErr # "" => Failed(k))

\* a request has failed at a document that another request has opened and not
\* yet written, and the document and the directories are as it found them
C26_Witness ==
    \E k \in 1..Len(inflight) :
       /\ Failed(k) /\ inflight[k].loadErr # ""
       /\ inflight[k].resp.code = 500
       /\ inflight[k].before = fs
       /\ fs.files[LedgerPath(inflight[k].req)] = Truncated

(***************************************************************************)
(* The two derivations of a file's status, checked under Spec.             *)
(***************************************************************************)
\* C27: on every page of /diff rendered from a ledger that record requests
\* have written, starting from an empty store, the FileStatus of the selected
\* file equals the status the file list gives to that file.
C27_StatusDerivationsAgree ==
    FilePage =>
        \A i \in SelectedAt : resp.Files[i].Status = resp.FileStatus

\* a page whose selected file has a decision, shown by both derivations, in a
\* list that holds files with other statuses
C27_Witness ==
    /\ FilePage
    /\ resp.FileStatus \in Decisions
    /\ \E i \in SelectedAt : resp.Files[i].Status = resp.FileStatus
    /\ Cardinality({resp.Files[i].Status : i \in 1..Len(resp.Files)}) = 3

(***************************************************************************)
(* The commits a persisted ledger names, checked under SpecConcurrent.     *)
(***************************************************************************)
\* the documents below baseStoragePath/<repository>/<source>/<target> that
\* can be read
LedgerDocuments ==
    {path \in DOMAIN fs.files : Len(path) = 4 /\ fs.files[path] # Truncated}

\* C28: in every state reached from an empty store through record requests,
\* a ledger document that can be read names, as source_commit and
\* target_commit, the commits of the key its location is derived from.
C28_DocumentNamesItsKey ==
    /\ \A path \in LedgerDocuments :
          /\ fs.files[path].source_commit = path[2]
          /\ fs.files[path].target_commit = path[3]
    /\ \A repo \in GitRepos, sourceCommit \in Commits :
          LET path == <<ReplaceAll(repo, "/", "_"), sourceCommit, BaseCommit,
                        ReviewStateFile>>
          IN path \in LedgerDocuments =>
                /\ fs.files[path].source_commit = sourceCommit
                /\ fs.files[path].target_commit = BaseCommit

\* ledgers of two commit pairs of one repository are persisted, written by
\* requests that were served concurrently
C28_Witness ==
    /\ Cardinality(LedgerDocuments) = 2
    /\ \E p, q \in LedgerDocuments : p[1] = q[1] /\ p[2] = "c1" /\ q[2] = "c2"
    /\ Len(inflight) = 2
    /\ \A k \in 1..2 : Succeeded(k)

(***************************************************************************)
(* The redirect after a decision, checked under SpecRecord.                *)
(***************************************************************************)
\* C29: the redirect that answers a record request that saved leads to /diff
\* for the file named by next when the request has one and for the file just
\* decided otherwise, with the repository, the branch names and the commit
\* pair of the request.
C29_RedirectFollowsNext ==
    RecordedAndSaved =>
        /\ resp.handler = "reviewState" /\ resp.code = 303
        /\ resp.location.path = "/diff"
        /\ resp.location.file =
              (IF call.req.next # <<>> THEN call.req.next ELSE call.req.file)
        /\ resp.location.repo = call.req.repo
        /\ resp.location.source = call.req.source
        /\ resp.location.target = call.req.target
        /\ resp.location.source_commit = call.req.source_commit
        /\ resp.location.target_commit = call.req.target_commit

\* a decision on one file was saved and the redirect leads to another file,
\* the one the request named as next
C29_Witness ==
    /\ RecordedAndSaved
    /\ call.req.next # <<>> /\ call.req.next # call.req.file
    /\ resp.code = 303 /\ resp.location.file = call.req.next
    /\ resp.location.source_commit = "c1"

(***************************************************************************)
(* FileReviews without a decision, checked under SpecExtract.              *)
(***************************************************************************)
\* the FileReviews of the input ledger for a path of the repository shown
ReviewsOf(path) ==
    {r \in FileReviews(call.reviewState) : r.Repo = call.repoPath /\ r.Path = path}

\* a path no FileReview of which holds approved, rejected or skipped; among
\* them the paths without any FileReview
Undecided(path) ==
    \A r \in ReviewsOf(path) : ValuesOf(r.Lines) \cap Decisions = {}

\* C30: a file whose FileReview holds no recognised decision, because its
\* range map is empty or holds only other values, is unreviewed in the file
\* list, and these files and the files without a FileReview are ordered as
\* one group: before every file with a decision, and by path among
\* themselves.
C30_NoDecisionIsUnreviewed ==
    Extracted =>
        /\ \A i \in 1..Len(call.files) :
              Undecided(call.files[i].Path) <=> call.files[i].Status = "unreviewed"
        /\ \A i, j \in 1..Len(call.files) :
              (Undecided(call.files[i].Path) /\ ~Undecided(call.files[j].Path))
                 => i < j
        /\ \A i, j \in 1..Len(call.files) :
              (i < j /\ Undecided(call.files[i].Path) /\ Undecided(call.files[j].Path))
                 => ~StrLess(call.files[j].Path, call.files[i].Path)

\* a list in which a file without a FileReview comes first, a file whose
\* FileReview holds only an unknown value follows it by path, and a file with
\* a decision comes last although its path lies between theirs
C30_Witness ==
    /\ Extracted
    /\ Len(call.files) = 3
    /\ ReviewsOf(call.files[1].Path) = {}
    /\ \E r \in ReviewsOf(call.files[2].Path) : r.Lines = ("all" :> "bogus")
    /\ call.files[2].Status = "unreviewed"
    /\ call.files[3].Status \in Decisions
    /\ StrLess(call.files[3].Path, call.files[2].Path)
====
